---- MODULE Spec2Model ----
(***************************************************************************)
(* A model of the curation-and-synthesis pipeline of the company research  *)
(* agent: a category researcher (backend/nodes/researchers), the Curator   *)
(* (backend/nodes/curator.py), the Briefing node                           *)
(* (backend/nodes/briefing.py) and the Editor (backend/nodes/editor.py).   *)
(*                                                                         *)
(* Conventions                                                             *)
(*  - Scores are Tavily floats in [0, 1]; the model holds them in tenths,  *)
(*    so the relevance threshold 0.4 is the integer 4.                     *)
(*  - A text is a sequence of one-character strings, so that len(), strip()*)
(*    and the `in` test on characters are computed, not assumed.           *)
(*  - A Python dict is a sequence of entries in insertion order.           *)
(*  - Each node is checked under a specification of its own              *)
(*    (SpecResearcher, SpecCurator, SpecBriefing, SpecEditor); the         *)
(*    variables of the other nodes stay at their initial values there.     *)
(***************************************************************************)
EXTENDS Integers, Sequences, FiniteSets, TLC

VARIABLES
    \* ---- ResearchState fields and locals of Curator.curate_data ----
    raw,            \* <category>_data: category -> sequence of [url, doc] entries
    curated,        \* curated_<category>_data: category -> sequence of documents
    curated_set,    \* the categories whose curated_<category>_data key curate_data set
    unique_docs,    \* local unique_docs of the last curate_data, per category
    evaluated_docs, \* local evaluated_docs of the last curate_data, per category
    references,     \* state['references']
    reference_titles, \* state['reference_titles']
    reference_info, \* state['reference_info']
    cur_pc,         \* "ready" before curate_data, "done" after it
    \* ---- Briefing.create_briefings ----
    br_pc,          \* "ready", "awaiting" (in gather), "returned" or "raised"
    task,           \* category -> "none", "queued", "running", "done", "failed"
    sem,            \* the value of briefing_semaphore
    content,        \* category -> what chain.ainvoke gave the category's task
    briefing_field, \* state['<category>_briefing']: a text, or Absent
    briefings,      \* the local dict briefings: category -> text
    state_briefings,    \* state['briefings'], once written
    briefings_written,  \* whether state['briefings'] was assigned
    \* ---- Briefing._prepare_documents ----
    prep_items,     \* its argument docs, as a list of documents
    doc_texts,      \* its local doc_texts: the entries of the payload
    prep_pc,        \* "idle", "called" or "returned"
    \* ---- Editor ----
    ed_pc,          \* "ready", "compiling" (in compile_content), "sweeping", "done"
    initial_report, \* what chain.ainvoke gave compile_content
    edited_report,  \* edit_report's edited_report: the phase-1 result
    accumulated_text,   \* content_sweep's accumulated_text
    buffer,         \* content_sweep's buffer
    n_deltas,       \* how many deltas the phase-2 stream has delivered
    sweep_out,      \* everything content_sweep has yielded, in order
    report,         \* state['report']: a text, or Absent
    editor_report,  \* state['editor']['report']: a text, or Absent
    compiled_report,    \* compile_briefings's compiled_report, once edit_report
                        \* returned: a text, else Absent
    \* ---- a category researcher: analyze, generate_queries, search_documents ----
    rs_pc,          \* "ready", "generating" (in chain.astream), "searching" (in
                    \* gather), "done" or "raised"
    rs_cat,         \* the researcher's category
    stream_text,    \* the whole text the completion stream will deliver
    stream_pos,     \* how many of its characters have been delivered
    n_chunks,       \* how many chunks the stream has delivered
    queries,        \* generate_queries's queries, then analyze's queries
    current_query,  \* generate_queries's current_query
    current_query_number,   \* generate_queries's current_query_number
    site_scrape,    \* state['site_scrape']
    search_results, \* task index -> what tavily_client.search gave, or Pending
    last_finished,  \* the index of the search task that ended last, 0 if none
    merged_docs,    \* search_documents's merged_docs
    yielded,        \* everything analyze has yielded, in order
    raw_written,    \* the categories whose <category>_data key was assigned
    \* ---- the progress event log (job_status[job_id]["events"]) ----
    registered,     \* job_id is set and job_id in job_status
    append_fails,   \* job_status[job_id]["events"].append(...) raises
    events,         \* the ordered event sequence of the job
    \* ---- two runs of one stage on the same inputs ----
    run,            \* 0: a single run; 1, 2: the first, the second of two runs
    trace,          \* the steps of the first run, each with the state after it
    pos,            \* the step of the trace the second run takes next
    start           \* the state both runs start from, and the log of the first

curVars == <<raw, curated, curated_set, unique_docs, evaluated_docs, references,
            reference_titles, reference_info, cur_pc>>
prepVars == <<prep_items, doc_texts, prep_pc>>
taskVars == <<br_pc, task, sem, content, briefing_field, briefings, state_briefings,
             briefings_written>>
brVars == <<br_pc, task, sem, content, briefing_field, briefings, state_briefings,
           briefings_written, prep_items, doc_texts, prep_pc>>
edVars == <<ed_pc, initial_report, edited_report, accumulated_text, buffer, n_deltas,
           sweep_out, report, editor_report, compiled_report>>
rsVars == <<rs_pc, rs_cat, stream_text, stream_pos, n_chunks, queries, current_query,
           current_query_number, site_scrape, search_results, last_finished,
           merged_docs, yielded, raw_written>>
jobVars == <<registered, append_fails>>
logVars == <<registered, append_fails, events>>
twinVars == <<run, trace, pos, start>>
vars == <<raw, curated, curated_set, unique_docs, evaluated_docs, references,
         reference_titles, reference_info, cur_pc,
          br_pc, task, sem, content, briefing_field, briefings, state_briefings,
          briefings_written, prep_items, doc_texts, prep_pc, ed_pc, initial_report, edited_report, accumulated_text,
          buffer, n_deltas, sweep_out, report, editor_report, compiled_report,
          rs_pc, rs_cat, stream_text, stream_pos, n_chunks, queries, current_query,
          current_query_number, site_scrape, search_results, last_finished,
          merged_docs, yielded, raw_written, registered, append_fails, events,
          run, trace, pos, start>>

----------------------------------------------------------------------------
(* Bounds of the model *)

\* the most documents of full length handed to _prepare_documents
MaxFull == 15

\* the longest raw map enumerated exhaustively
MaxRaw == 2
\* the longest generated raw map (beyond the cap of 30)
MaxLong == 35
\* the largest curated set handed to the Briefing node
MaxBriefDocs == 1
\* the most deltas a phase-2 stream delivers
MaxDeltas == 4
\* the longest completion of a query stream enumerated exhaustively
MaxText == 2
\* the most chunks a query stream delivers
MaxChunks == 2

----------------------------------------------------------------------------
(* Generic helpers *)

Range(s) == {s[i] : i \in 1..Len(s)}

Min(a, b) == IF a < b THEN a ELSE b

\* the four research tracks, in the iteration order of the data_types dict
Categories == <<"financial", "news", "industry", "company">>

CategorySet == Range(Categories)

\* urlparse(url): the parts of a url the Curator reads or drops; the path is
\* a number standing for host and path
Url(scheme, path, query, fragment) ==
    [scheme |-> scheme, path |-> path, query |-> query, fragment |-> fragment]

\* state.get('<field>', {}) of every category when nothing was stored
NoDocs == [c \in CategorySet |-> <<>>]

\* the job either has a record in job_status, with no event yet, or none;
\* appending to the record works
InitLog ==
    /\ registered \in BOOLEAN
    /\ append_fails = FALSE
    /\ events = <<>>

\* a single run of a node
OneRun ==
    /\ run = 0
    /\ trace = <<>>
    /\ pos = 0
    /\ start = <<>>

\* `if job_id in job_status: job_status[job_id]["events"].append(event)`
\* inside try/except: the event is appended when the job has a record and
\* the append does not raise; otherwise the log is left as it is and the
\* caller goes on
CanAppend == registered /\ ~append_fails

----------------------------------------------------------------------------
(* Curator *)

\* self.relevance_threshold = 0.4, in tenths
relevance_threshold == 4

\* the per-category cap of curate_data
MaxCurated == 30

\* urlparse(url)._replace(query='', fragment='').geturl(): the query and the
\* fragment are dropped; the scheme is the parsed one (the urljoin result is
\* assigned to `url`, which is not read again).
Normalize(u) == [u EXCEPT !.query = "", !.fragment = ""]

\* float(doc.get('score', 0)) raises ValueError/TypeError
ScoreRaises(doc) == doc.score_kind = "bad"

\* float(doc.get('score', 0)): a missing score defaults to 0
TavilyScore(doc) == IF doc.score_kind = "num" THEN doc.score ELSE 0

\* the mutant of Keep: the threshold taken strictly
KeepStrict(doc) ==
    TavilyScore(doc) > relevance_threshold \/ doc.source = "company_website"

\* tavily_score >= self.relevance_threshold or is_company_website
Keep(doc) ==
    TavilyScore(doc) >= relevance_threshold \/ doc.source = "company_website"

\* {**doc, "evaluation": {"overall_score": tavily_score, ...}}
Evaluate(doc) ==
    [id |-> doc.id, url |-> doc.url, doc_type |-> doc.doc_type,
     score_kind |-> doc.score_kind, score |-> doc.score, source |-> doc.source,
     overall_score |-> TavilyScore(doc)]

\* list.sort(key=overall_score, reverse=True) / sorted(..., reverse=True):
\* Python's sort is stable, also with reverse=True, so x goes after every
\* element whose key is >= its own.
InsertDesc(sorted, x) ==
    LET k == Cardinality({i \in 1..Len(sorted) :
                            sorted[i].overall_score >= x.overall_score})
    IN SubSeq(sorted, 1, k) \o <<x>> \o SubSeq(sorted, k + 1, Len(sorted))

RECURSIVE SortDesc(_)
SortDesc(s) ==
    IF s = <<>> THEN <<>>
    ELSE InsertDesc(SortDesc(SubSeq(s, 1, Len(s) - 1)), s[Len(s)])

\* the mutant of EvalLoop: a score that does not parse ends the evaluation
\* of the whole batch with no document kept
RECURSIVE EvalLoopAbort(_)
EvalLoopAbort(docs) ==
    IF docs = <<>> THEN <<>>
    ELSE IF \E k \in 1..Len(docs) : ScoreRaises(docs[k]) THEN <<>>
    ELSE LET rest == EvalLoopAbort(SubSeq(docs, 1, Len(docs) - 1))
             doc  == docs[Len(docs)]
         IN IF Keep(doc) THEN Append(rest, Evaluate(doc)) ELSE rest

\* the for loop of evaluate_documents: a document whose score does not parse
\* is skipped (continue), a kept one is appended with its evaluation
RECURSIVE EvalLoop(_)
EvalLoop(docs) ==
    IF docs = <<>> THEN <<>>
    ELSE LET rest == EvalLoop(SubSeq(docs, 1, Len(docs) - 1))
             doc  == docs[Len(docs)]
         IN IF ScoreRaises(doc) THEN rest
            ELSE IF Keep(doc) THEN Append(rest, Evaluate(doc))
            ELSE rest

\* Curator.evaluate_documents
EvaluateDocuments(docs) ==
    IF docs = <<>> THEN <<>> ELSE SortDesc(EvalLoop(docs))

\* urlparse(url) raises ValueError (an unbalanced bracket in the host, as in
\* 'http://[x'): such a key is written with a negative path number
UrlRaises(u) == u.path < 0

\* the value under a raw key is a document record (a dict); one that is not
\* (None, a string) is written with the score_kind and source "none", and
\* `doc['url'] = clean_url` raises TypeError on it
IsRecord(doc) == doc.score_kind # "none"

\* the mutant of DedupStep: the last entry of a normalized URL wins
DedupStepLast(unique, entry, doc_type) ==
    LET clean_url == Normalize(entry.url)
        doc == [entry.doc EXCEPT !.url = clean_url, !.doc_type = doc_type]
    IN IF UrlRaises(entry.url) \/ ~IsRecord(entry.doc) THEN unique
       ELSE IF \E i \in 1..Len(unique) : unique[i].url = clean_url
       THEN [i \in 1..Len(unique) |->
                IF unique[i].url = clean_url THEN doc ELSE unique[i]]
       ELSE Append(unique, doc)

\* one iteration of `for url, doc in data.items()`: the first entry of a
\* normalized URL enters unique_docs, with doc['url'] and doc['doc_type'] set;
\* an entry whose key does not parse, or whose value is not a record, raises
\* inside the try and is passed over (except Exception: continue)
DedupStep(unique, entry, doc_type) ==
    IF UrlRaises(entry.url) THEN unique
    ELSE LET clean_url == Normalize(entry.url)
         IN IF \E i \in 1..Len(unique) : unique[i].url = clean_url
            THEN unique
            ELSE IF ~IsRecord(entry.doc) THEN unique
            ELSE Append(unique, [entry.doc EXCEPT !.url = clean_url,
                                                  !.doc_type = doc_type])

\* docs = list(unique_docs.values()) after the loop over data.items()
RECURSIVE Dedup(_, _)
Dedup(data, doc_type) ==
    IF data = <<>> THEN <<>>
    ELSE DedupStep(Dedup(SubSeq(data, 1, Len(data) - 1), doc_type),
                   data[Len(data)], doc_type)

\* the mutant of CapTop: the cap keeps the tail of the ranking
CapTail(sorted_items) ==
    IF Len(sorted_items) > MaxCurated
    THEN SubSeq(sorted_items, Len(sorted_items) - MaxCurated + 1, Len(sorted_items))
    ELSE sorted_items

\* if len(sorted_items) > 30: sorted_items = sorted_items[:30]
CapTop(sorted_items) ==
    IF Len(sorted_items) > MaxCurated
    THEN SubSeq(sorted_items, 1, MaxCurated)
    ELSE sorted_items

\* relevant_docs of curate_data: the evaluated documents keyed by url (the
\* urls of evaluated documents are distinct after Dedup), sorted again and cut
RelevantDocs(evaluated) == CapTop(SortDesc(evaluated))

\* a raw entry whose key parses and whose value is a document record
WellFormed(entry) == ~UrlRaises(entry.url) /\ IsRecord(entry.doc)

\* the i-th entry of the raw map is one the loop put into unique_docs: it
\* raised nothing, and no entry before it put its normalized URL there
Inserted(data, i) ==
    /\ WellFormed(data[i])
    /\ \A j \in 1..(i - 1) :
          WellFormed(data[j]) => Normalize(data[j].url) # Normalize(data[i].url)

\* the raw documents the loop of curate_data leaves behind: doc['url'] and
\* doc['doc_type'] are assigned on the document object of the raw map itself
RawAfterDedup(data, doc_type) ==
    [i \in 1..Len(data) |->
        IF Inserted(data, i)
        THEN [data[i] EXCEPT !.doc = [data[i].doc EXCEPT
                                         !.url = Normalize(data[i].url),
                                         !.doc_type = doc_type]]
        ELSE data[i]]

\* the documents of state['site_scrape'] are objects that the raw map of
\* every category holds (merged_docs = dict(state.get('site_scrape', {})) is
\* a shallow copy): the site document has the id 0 in every raw map
SiteId == 0

Shared(doc) == doc.id = SiteId

\* the positions in Categories of the categories whose loop tagged the site
\* document
Taggers(data) ==
    {n \in 1..Len(Categories) :
        \E i \in 1..Len(data[Categories[n]]) :
            /\ Shared(data[Categories[n]][i].doc)
            /\ Inserted(data[Categories[n]], i)}

\* doc['doc_type'] of the site document when curate_data returns: the
\* categories are gone through in order, the last one to tag it wins; ""
\* when none did
FinalType(data) ==
    IF Taggers(data) = {} THEN ""
    ELSE Categories[CHOOSE n \in Taggers(data) : \A m \in Taggers(data) : m <= n]

\* the raw map of a category when curate_data returns: its site document is
\* the object the other categories tagged too
Retagged(data, final_type) ==
    [i \in 1..Len(data) |->
        IF Shared(data[i].doc) /\ final_type # ""
        THEN [data[i] EXCEPT !.doc = [data[i].doc EXCEPT
                                         !.url = Normalize(data[i].url),
                                         !.doc_type = final_type]]
        ELSE data[i]]

\* the mutant of EvaluatedCopy: the evaluated document is the raw document
\* object itself, so a site document ends with the tag of the last category
EvaluatedAlias(doc, final_type) ==
    IF Shared(doc) /\ final_type # ""
    THEN [doc EXCEPT !.doc_type = final_type] ELSE doc

\* evaluated_doc = {**doc, "evaluation": {...}}: a new dict, which keeps the
\* doc_type the document had when it was evaluated, whatever tag the
\* document object takes afterwards (final_type)
EvaluatedCopy(doc, final_type) == doc

\* the evaluated documents of a category as they are when curate_data returns
StoredDocs(docs, final_type) ==
    [k \in 1..Len(docs) |-> EvaluatedCopy(docs[k], final_type)]

\* the "curation" progress event of one category
CurationEvent(doc_type, evaluated) ==
    [type |-> "curation", category |-> doc_type, total |-> Len(evaluated)]

\* the events curate_data appends, category by category: none for a category
\* without data, none when the job has no record in job_status
RECURSIVE CurationEvents(_, _, _)
CurationEvents(evaluated, data, n) ==
    IF n = 0 THEN <<>>
    ELSE LET c == Categories[n]
             before == CurationEvents(evaluated, data, n - 1)
         IN IF data[c] = <<>> THEN before
            ELSE Append(before, CurationEvent(c, evaluated[c]))

\* the urls of the curated documents of all categories, without repetition
RECURSIVE DistinctUrls(_)
DistinctUrls(docs) ==
    IF docs = <<>> THEN <<>>
    ELSE LET before == DistinctUrls(SubSeq(docs, 1, Len(docs) - 1))
             u == docs[Len(docs)].url
         IN IF u \in Range(before) THEN before ELSE Append(before, u)

\* process_references_from_search_results(state): at most 10 distinct urls of
\* curated documents
MaxReferences == 10

SelectReferences(cur) ==
    LET all == DistinctUrls(SortDesc(cur[Categories[1]] \o cur[Categories[2]]
                                     \o cur[Categories[3]] \o cur[Categories[4]]))
    IN SubSeq(all, 1, Min(Len(all), MaxReferences))

\* the curated documents of all categories, best first
Ranked(cur) ==
    SortDesc(cur[Categories[1]] \o cur[Categories[2]]
             \o cur[Categories[3]] \o cur[Categories[4]])

\* the best-ranked document under a url
BestDoc(ranked, u) ==
    ranked[CHOOSE k \in 1..Len(ranked) :
              /\ ranked[k].url = u
              /\ \A j \in 1..(k - 1) : ranked[j].url # u]

\* the second output of the collaborator, url -> title: the title of a
\* document is stood for by its id
ReferenceTitles(ranked, urls) ==
    [k \in 1..Len(urls) |-> [url |-> urls[k], title |-> BestDoc(ranked, urls[k]).id]]

\* the third output of the collaborator, url -> metadata
ReferenceInfo(ranked, urls) ==
    [k \in 1..Len(urls) |->
        [url |-> urls[k], score |-> BestDoc(ranked, urls[k]).overall_score]]

\* the mutant of ProcessReferences: every distinct url is stored, however
\* many there are
ProcessEveryReference(cur) ==
    LET ranked == Ranked(cur)
        urls == DistinctUrls(ranked)
    IN [urls |-> urls, titles |-> ReferenceTitles(ranked, urls),
        info |-> ReferenceInfo(ranked, urls)]

\* top_reference_urls, reference_titles, reference_info =
\*     process_references_from_search_results(state)
ProcessReferences(cur) ==
    LET urls == SelectReferences(cur)
        ranked == Ranked(cur)
    IN [urls |-> urls, titles |-> ReferenceTitles(ranked, urls),
        info |-> ReferenceInfo(ranked, urls)]

\* docs of one category: an empty raw map is skipped before the loop
UniqueOf(data, c) == IF data[c] = <<>> THEN <<>> ELSE Dedup(data[c], c)

\* evaluated_docs of one category
EvaluatedOf(data, c) == EvaluateDocuments(UniqueOf(data, c))

\* Curator.curate_data: no await inside, so the call is one step. A category
\* whose evaluation is empty is left (continue) before its curated field is
\* written.
CurateData ==
    /\ cur_pc = "ready"
    /\ unique_docs' = [c \in CategorySet |-> UniqueOf(raw, c)]
    /\ evaluated_docs' = [c \in CategorySet |-> EvaluatedOf(raw, c)]
    /\ raw' = [c \in CategorySet |->
                  Retagged(RawAfterDedup(raw[c], c), FinalType(raw))]
    /\ curated' = [c \in CategorySet |->
                      IF evaluated_docs'[c] # <<>>
                      THEN RelevantDocs(StoredDocs(evaluated_docs'[c], FinalType(raw)))
                      ELSE curated[c]]
    /\ curated_set' = curated_set \cup {c \in CategorySet : evaluated_docs'[c] # <<>>}
    /\ LET out == ProcessReferences(curated')
       IN /\ references' = out.urls
          /\ reference_titles' = out.titles
          /\ reference_info' = out.info
    /\ events' = IF CanAppend
                 THEN events \o CurationEvents(evaluated_docs', raw, Len(Categories))
                 ELSE events
    /\ cur_pc' = "done"
    /\ UNCHANGED <<jobVars, brVars, edVars, rsVars>>

----------------------------------------------------------------------------
(* Texts *)

\* a state field that was never assigned
Absent == <<"ABSENT">>

Whitespace == {" ", "\n", "\t"}

\* str.strip(): leading and trailing whitespace removed
RECURSIVE LStrip(_)
LStrip(t) ==
    IF t # <<>> /\ t[1] \in Whitespace THEN LStrip(Tail(t)) ELSE t

RECURSIVE RStrip(_)
RStrip(t) ==
    IF t # <<>> /\ t[Len(t)] \in Whitespace
    THEN RStrip(SubSeq(t, 1, Len(t) - 1)) ELSE t

Strip(t) == RStrip(LStrip(t))

\* the researchers after all four have returned: every <category>_data key
\* was assigned, and nothing of a run is left
ResearchersReturned ==
    /\ rs_pc = "done"
    /\ rs_cat = "company"
    /\ stream_text = <<>>
    /\ stream_pos = 0
    /\ n_chunks = 0
    /\ queries = <<>>
    /\ current_query = <<>>
    /\ current_query_number = 1
    /\ site_scrape = <<>>
    /\ search_results = <<>>
    /\ last_finished = 0
    /\ merged_docs = <<>>
    /\ yielded = <<>>
    /\ raw_written = CategorySet

\* the Editor before compile_briefings is called
EditorIdle ==
    /\ ed_pc = "ready"
    /\ initial_report = [kind |-> "none", text |-> <<>>]
    /\ edited_report = <<>>
    /\ accumulated_text = <<>>
    /\ buffer = <<>>
    /\ n_deltas = 0
    /\ sweep_out = <<>>
    /\ report = Absent
    /\ editor_report = Absent
    /\ compiled_report = Absent

----------------------------------------------------------------------------
(* Briefing *)

\* asyncio.Semaphore(2)
BriefingSlots == 2

\* what `await chain.ainvoke(...)` gives a task: a text, or an exception
Raised == [kind |-> "raise", text |-> <<>>]

Returned(t) == [kind |-> "text", text |-> t]

NotCalled == [kind |-> "none", text |-> <<>>]

\* the completion outputs tried: empty, whitespace only, a text, a text with
\* whitespace around it
Outputs == {<<>>, <<" ">>, <<"a">>, <<" ", "b", "\n">>}

Outcomes == {Raised} \cup {Returned(t) : t \in Outputs}

\* the mutant of HasCuratedData: a task for every category
HasCuratedDataAlways(cur, c) == TRUE

\* `if curated_data:` a category gets a task when its curated set is non-empty
HasCuratedData(cur, c) == cur[c] # <<>>

\* the tasks still waiting at `async with briefing_semaphore`, in list order
Queued(tk) == {i \in 1..Len(Categories) : tk[Categories[i]] = "queued"}

\* the mutant of CanAdmit: the gate admits whatever its value
CanAdmitAny(value) == TRUE

\* Semaphore.acquire returns when the value is positive
CanAdmit(value) == value > 0

\* the briefing_start event of generate_category_briefing
BriefingStart(c, docs) ==
    [type |-> "briefing_start", category |-> c, total_docs |-> Len(docs)]

\* the briefing_complete event of generate_category_briefing
BriefingComplete(c, text) ==
    [type |-> "briefing_complete", category |-> c, content_length |-> Len(text)]

\* the mutant of Logged: the event is put in front of the log
LoggedFront(log, event) == IF CanAppend THEN <<event>> \o log ELSE log

\* job_status[job_id]["events"].append(event), when the job has a record
Logged(log, event) == IF CanAppend THEN Append(log, event) ELSE log

\* the text generate_category_briefing yields under 'content': '' for an
\* empty completion, else content.strip()
YieldedContent(out) == IF out.text = <<>> THEN <<>> ELSE Strip(out.text)

\* the mutant of Succeeds: a failed append of briefing_complete fails the task
SucceedsIfLogged(out) == out.kind = "text" /\ YieldedContent(out) # <<>> /\ CanAppend

\* the mutant of Succeeds: an empty result is accepted
SucceedsAlways(out) == out.kind = "text"

\* process_briefing returns normally when chain.ainvoke did not raise and
\* result['content'] is truthy; otherwise it raises RuntimeError
Succeeds(out) == out.kind = "text" /\ YieldedContent(out) # <<>>

\* the mutant of AfterFailure: gather(..., return_exceptions=True)
AfterFailureSwallowed(pc) == pc

\* asyncio.gather without return_exceptions: the first task exception is
\* raised in the awaiting create_briefings; the other tasks are not cancelled
AfterFailure(pc) == IF pc = "awaiting" THEN "raised" ELSE pc

\* the first n categories with a task, in list order
RECURSIVE FirstTasks(_, _, _)
FirstTasks(cur, i, n) ==
    IF i > Len(Categories) \/ n = 0 THEN <<>>
    ELSE IF HasCuratedData(cur, Categories[i])
         THEN <<Categories[i]>> \o FirstTasks(cur, i + 1, n - 1)
         ELSE FirstTasks(cur, i + 1, n)

\* the briefing_start events of the tasks in cs, in order
RECURSIVE StartEvents(_, _, _)
StartEvents(log, cs, cur) ==
    IF cs = <<>> THEN log
    ELSE StartEvents(Logged(log, BriefingStart(cs[1], cur[cs[1]])), Tail(cs), cur)

\* create_briefings up to its first suspension. The categories without
\* curated data get briefing '' at once. Without tasks the call writes
\* state['briefings'] = {} and returns. With tasks, gather starts them in list
\* order: the first two pass the gate, emit briefing_start and suspend in
\* chain.ainvoke; the others suspend at the gate.
CreateBriefings ==
    /\ br_pc = "ready"
    /\ LET tasks == {c \in CategorySet : HasCuratedData(curated, c)}
           first == FirstTasks(curated, 1, BriefingSlots)
       IN /\ briefing_field' = [c \in CategorySet |->
                                   IF c \in tasks THEN briefing_field[c] ELSE <<>>]
          /\ task' = [c \in CategorySet |->
                         IF c \notin tasks THEN "none"
                         ELSE IF c \in Range(first) THEN "running" ELSE "queued"]
          /\ sem' = BriefingSlots - Len(first)
          /\ events' = StartEvents(events, first, curated)
          /\ IF tasks = {}
             THEN /\ br_pc' = "returned"
                  /\ state_briefings' = briefings
                  /\ briefings_written' = TRUE
             ELSE /\ br_pc' = "awaiting"
                  /\ UNCHANGED <<state_briefings, briefings_written>>
    /\ UNCHANGED <<content, briefings, jobVars, prepVars, curVars, edVars, rsVars>>

\* a slot is free and the longest-waiting task passes the gate, emits
\* briefing_start and suspends in chain.ainvoke
Admit(c) ==
    /\ task[c] = "queued"
    /\ CanAdmit(sem)
    /\ \A i \in Queued(task) : \E j \in 1..i : Categories[j] = c
    /\ sem' = sem - 1
    /\ task' = [task EXCEPT ![c] = "running"]
    /\ events' = Logged(events, BriefingStart(c, curated[c]))
    /\ UNCHANGED <<br_pc, content, briefing_field, briefings, state_briefings,
                   briefings_written, jobVars, prepVars, curVars, edVars, rsVars>>

\* the mutant of Released: only a task that succeeds gives its slot back
ReleasedOnSuccess(value, out) == IF Succeeds(out) THEN value + 1 ELSE value

\* leaving `async with briefing_semaphore`, by return or by exception,
\* releases the semaphore
Released(value, out) == value + 1

\* chain.ainvoke of the task of category c ends with `out`, and the task runs
\* to its end: it logs briefing_complete for a non-empty completion, stores a
\* truthy stripped content in briefings and in the state field, or raises;
\* leaving `async with` frees the slot either way. gather then raises in the
\* caller on the first failure, or, when the last task has ended and none
\* failed, the caller stores state['briefings'] and returns. A task ends
\* this way also after the call has raised: gather does not cancel it.
Complete(c, out) ==
    /\ task[c] = "running"
    /\ content' = [content EXCEPT ![c] = out]
    /\ sem' = Released(sem, out)
    /\ events' = IF out.kind = "text" /\ out.text # <<>>
                 THEN Logged(events, BriefingComplete(c, out.text))
                 ELSE events
    /\ IF Succeeds(out)
       THEN /\ briefings' = (c :> YieldedContent(out)) @@ briefings
            /\ briefing_field' = [briefing_field EXCEPT ![c] = YieldedContent(out)]
            /\ task' = [task EXCEPT ![c] = "done"]
            /\ IF br_pc = "awaiting" /\ \A d \in CategorySet : task'[d] \in {"none", "done"}
               THEN /\ br_pc' = "returned"
                    /\ state_briefings' = briefings'
                    /\ briefings_written' = TRUE
               ELSE UNCHANGED <<br_pc, state_briefings, briefings_written>>
       ELSE /\ task' = [task EXCEPT ![c] = "failed"]
            /\ br_pc' = AfterFailure(br_pc)
            /\ UNCHANGED <<briefings, briefing_field, state_briefings, briefings_written>>
    /\ UNCHANGED <<jobVars, prepVars, curVars, edVars, rsVars>>

\* the Briefing node before create_briefings is called
BriefingIdle ==
    /\ br_pc = "ready"
    /\ task = [c \in CategorySet |-> "none"]
    /\ sem = BriefingSlots
    /\ content = [c \in CategorySet |-> NotCalled]
    /\ briefing_field = [c \in CategorySet |-> Absent]
    /\ briefings = <<>>
    /\ state_briefings = <<>>
    /\ briefings_written = FALSE
    /\ prep_items = <<>>
    /\ doc_texts = <<>>
    /\ prep_pc = "idle"

\* create_briefings not called
TasksIdle ==
    /\ br_pc = "ready"
    /\ task = [c \in CategorySet |-> "none"]
    /\ sem = BriefingSlots
    /\ content = [c \in CategorySet |-> NotCalled]
    /\ briefing_field = [c \in CategorySet |-> Absent]
    /\ briefings = <<>>
    /\ state_briefings = <<>>
    /\ briefings_written = FALSE

\* a curated set of n documents, as the Curator stores it
CuratedOfSize(n) ==
    [i \in 1..n |->
        Evaluate([id |-> i, url |-> [scheme |-> "https", path |-> i, query |-> "",
                                     fragment |-> ""],
                  doc_type |-> "", score_kind |-> "num", score |-> 7,
                  source |-> "web_search"])]

\* the state create_briefings is called on, with curated sets of some of the
\* given sizes
CalledOnSizes(sizes) ==
    /\ \E size \in [CategorySet -> sizes] :
          /\ curated = [c \in CategorySet |-> CuratedOfSize(size[c])]
          /\ curated_set = {c \in CategorySet : size[c] > 0}
    /\ raw = NoDocs
    /\ unique_docs = NoDocs
    /\ evaluated_docs = NoDocs
    /\ references = <<>>
    /\ reference_titles = <<>>
    /\ reference_info = <<>>
    /\ cur_pc = "done"
    /\ InitLog
    /\ ResearchersReturned
    /\ BriefingIdle
    /\ EditorIdle

InitBriefing == CalledOnSizes(0..MaxBriefDocs) /\ OneRun

NextBriefing ==
    \/ CreateBriefings /\ UNCHANGED twinVars
    \/ \E c \in CategorySet : Admit(c) /\ UNCHANGED twinVars
    \/ \E c \in CategorySet, out \in Outcomes : Complete(c, out) /\ UNCHANGED twinVars

SpecBriefing == InitBriefing /\ [][NextBriefing]_vars

\* the scheduling of the event loop: create_briefings is called; a task that
\* can pass the gate does (the semaphore wakes its waiters in order);
\* and every completion call that was started ends, by a result or by an
\* exception
BriefingFairness ==
    /\ WF_vars(CreateBriefings /\ UNCHANGED twinVars)
    /\ \A c \in CategorySet : WF_vars(Admit(c) /\ UNCHANGED twinVars)
    /\ \A c \in CategorySet :
          WF_vars(\E out \in Outcomes : Complete(c, out) /\ UNCHANGED twinVars)

\* every choice of the categories with curated data, each with a curated
\* set of the largest size
InitBriefingFair == CalledOnSizes({0, MaxBriefDocs}) /\ OneRun

SpecBriefingFair ==
    InitBriefingFair /\ [][NextBriefing]_vars /\ BriefingFairness

----------------------------------------------------------------------------
(* Briefing._prepare_documents. A string is stood for by its length: a
   document is [id, overall_score, title, raw_content, content], the last
   three being lengths. *)

\* self.max_doc_length
max_doc_length == 8000

\* len("... [content truncated]")
TruncationMarker == 23

\* len("Title: ") + len("\n\nContent: ")
EntryFrame == 18

\* the ceiling of the summed entry lengths
MaxTotalLength == 120000

\* content = doc.get('raw_content') or doc.get('content', '')
ContentLength(doc) ==
    IF doc.raw_content > 0 THEN doc.raw_content ELSE doc.content

\* if len(content) > self.max_doc_length:
\*     content = content[:self.max_doc_length] + "... [content truncated]"
Truncated(length) ==
    IF length > max_doc_length THEN max_doc_length + TruncationMarker ELSE length

\* doc_entry = f"Title: {title}\n\nContent: {content}"
DocEntry(doc) ==
    [id |-> doc.id,
     content |-> Truncated(ContentLength(doc)),
     length |-> EntryFrame + doc.title + Truncated(ContentLength(doc))]

\* the mutant of FormatLoop: an entry that does not fit is passed over and
\* the loop goes on (continue)
RECURSIVE FormatLoopSkipping(_, _, _)
FormatLoopSkipping(sorted_items, texts, total_length) ==
    IF sorted_items = <<>> THEN texts
    ELSE LET doc_entry == DocEntry(Head(sorted_items))
         IN IF total_length + doc_entry.length < MaxTotalLength
            THEN FormatLoopSkipping(Tail(sorted_items), Append(texts, doc_entry),
                                    total_length + doc_entry.length)
            ELSE FormatLoopSkipping(Tail(sorted_items), texts, total_length)

\* the for loop over sorted_items: an entry is appended while the total
\* stays under the ceiling, the first that does not fit ends the loop (break)
RECURSIVE FormatLoop(_, _, _)
FormatLoop(sorted_items, texts, total_length) ==
    IF sorted_items = <<>> THEN texts
    ELSE LET doc_entry == DocEntry(Head(sorted_items))
         IN IF total_length + doc_entry.length < MaxTotalLength
            THEN FormatLoop(Tail(sorted_items), Append(texts, doc_entry),
                            total_length + doc_entry.length)
            ELSE texts

\* Briefing._prepare_documents: sorted(items, key=overall_score,
\* reverse=True), then the loop; the result joins doc_texts with separators
PrepareDocuments ==
    /\ prep_pc = "called"
    /\ doc_texts' = FormatLoop(SortDesc(prep_items), <<>>, 0)
    /\ prep_pc' = "returned"
    /\ UNCHANGED <<prep_items, taskVars, logVars, curVars, edVars, rsVars>>

PrepDoc(i, s, t, r, c) ==
    [id |-> i, overall_score |-> s, title |-> t, raw_content |-> r, content |-> c]

\* n documents longer than max_doc_length, half of them by their raw_content,
\* with scores 5..7 that follow a*i
LongDocs(n, a) ==
    [i \in 1..n |->
        IF i % 2 = 0 THEN PrepDoc(i, 5 + ((a * i) % 3), 0, 9000, 10)
        ELSE PrepDoc(i, 5 + ((a * i) % 3), 0, 0, 8001)]

\* the content lengths of the document ranked after the long ones: with 14
\* long documents before it, 7407 brings the total to 119,999 and 7408 to
\* 120,000
BoundaryLengths == {0, 7402, 7407, 7408, 8000, 8001}

\* the documents handed to _prepare_documents: the lowest-ranked, short one
\* first, then the one ranked after the long ones, then the long ones
PrepInputs ==
    {<<PrepDoc(101, 1, 0, 0, s), PrepDoc(100, 2, t, 0, c)>> \o LongDocs(n, a) :
        s \in {1, 100}, t \in {0, 5}, c \in BoundaryLengths,
        n \in (MaxFull - 3)..MaxFull, a \in 0..2}

InitPrepare ==
    /\ prep_items \in PrepInputs
    /\ doc_texts = <<>>
    /\ prep_pc = "called"
    /\ TasksIdle
    /\ raw = NoDocs
    /\ curated = NoDocs
    /\ curated_set = {}
    /\ unique_docs = NoDocs
    /\ evaluated_docs = NoDocs
    /\ references = <<>>
    /\ reference_titles = <<>>
    /\ reference_info = <<>>
    /\ cur_pc = "done"
    /\ InitLog
    /\ OneRun
    /\ ResearchersReturned
    /\ EditorIdle

NextPrepare == PrepareDocuments /\ UNCHANGED twinVars

SpecPrepare == InitPrepare /\ [][NextPrepare]_vars

----------------------------------------------------------------------------
(* Editor *)

\* the iteration order of briefing_keys in compile_briefings
EditorOrder == <<"company", "industry", "financial", "news">>

\* `if content := state.get(key)`: the briefing is there and not empty
HasBriefing(fields, c) == fields[c] # Absent /\ fields[c] # <<>>

\* "\n\n".join(content for content in briefings.values()), over the first n
\* categories of briefing_keys
RECURSIVE CombinedContent(_, _)
CombinedContent(fields, n) ==
    IF n = 0 THEN <<>>
    ELSE LET before == CombinedContent(fields, n - 1)
             c == EditorOrder[n]
         IN IF ~HasBriefing(fields, c) THEN before
            ELSE IF \E k \in 1..(n - 1) : HasBriefing(fields, EditorOrder[k])
                 THEN before \o <<"\n", "\n">> \o fields[c]
                 ELSE fields[c]

\* format_references_section(references, reference_info, reference_titles)
ReferenceText(refs) == IF refs = <<>> THEN <<>> ELSE <<"#", "R">>

\* the mutant of InitialReport: the references section is appended to the
\* raw concatenation too
InitialReportWithReferences(fields, refs, out) ==
    LET base == IF out.kind = "raise" THEN CombinedContent(fields, Len(EditorOrder))
                ELSE out.text
    IN IF ReferenceText(refs) # <<>>
       THEN base \o <<"\n", "\n">> \o ReferenceText(refs)
       ELSE base

\* what compile_content returns: the completion with the references section
\* appended, or, when chain.ainvoke raises, the raw concatenation
InitialReport(fields, refs, out) ==
    IF out.kind = "raise" THEN CombinedContent(fields, Len(EditorOrder))
    ELSE IF ReferenceText(refs) # <<>>
         THEN out.text \o <<"\n", "\n">> \o ReferenceText(refs)
         ELSE out.text

\* the minimum length of a streamed chunk
MinChunkLength == 10

SentenceEnds == {".", "!", "?", "\n"}

\* the mutant of AtBoundary: a buffer of exactly the minimum length is sent
AtBoundaryInclusive(buf) ==
    (\E i \in 1..Len(buf) : buf[i] \in SentenceEnds) /\ Len(buf) >= MinChunkLength

\* any(char in buffer for char in ['.', '!', '?', '\n']) and len(buffer) > 10
AtBoundary(buf) ==
    (\E i \in 1..Len(buf) : buf[i] \in SentenceEnds) /\ Len(buf) > MinChunkLength

\* the mutant of ReportChunk: the chunk is sent without the whitespace
\* around it
ReportChunkStripped(buf) == [type |-> "report_chunk", chunk |-> Strip(buf)]

\* {"type": "report_chunk", "chunk": buffer, "step": "Editor"}
ReportChunk(buf) == [type |-> "report_chunk", chunk |-> buf]

ErrorEvent == [type |-> "error", step |-> "Editor"]

TextItem(t) == [type |-> "text", text |-> t]

\* the dicts among the yielded items are appended to the job's events
RECURSIVE Forwarded(_, _)
Forwarded(log, items) ==
    IF items = <<>> THEN log
    ELSE Forwarded(IF items[1].type = "text" THEN log ELSE Logged(log, items[1]),
                   Tail(items))

\* the mutant of Fallback: what the stream had delivered is returned
FallbackPartial(phase1, accumulated) == Strip(accumulated)

\* `yield content or ""` in the except branch of content_sweep
Fallback(phase1, accumulated) == phase1

\* the mutant of StoreReport: an empty phase-2 text is not replaced by the
\* phase-1 text
StoreReportNoFallback(last) ==
    LET final_report == last
    IN IF Strip(final_report) = <<>>
       THEN /\ compiled_report' = <<>>
            /\ UNCHANGED <<report, editor_report>>
       ELSE /\ report' = final_report
            /\ editor_report' = final_report
            /\ compiled_report' = final_report

\* the mutant of StoreReport: only the top-level field is written
StoreReportTopOnly(last) ==
    LET final_report == IF last # <<>> THEN last ELSE edited_report
    IN IF Strip(final_report) = <<>>
       THEN /\ compiled_report' = <<>>
            /\ UNCHANGED <<report, editor_report>>
       ELSE /\ report' = final_report
            /\ compiled_report' = final_report
            /\ UNCHANGED editor_report

\* the mutant of StoreReport: the final report is stored before it is
\* tested for being blank
StoreReportUnchecked(last) ==
    LET final_report == IF last # <<>> THEN last ELSE edited_report
    IN /\ report' = final_report
       /\ editor_report' = final_report
       /\ compiled_report' = IF Strip(final_report) = <<>> THEN <<>> ELSE final_report

\* the end of edit_report and of Editor.run, given the last string that
\* content_sweep yielded: final_report = final_report or edited_report; a
\* blank final report is not stored and "" is returned; a stored one goes to
\* state['report'] and state['editor']['report'] and is returned
StoreReport(last) ==
    LET final_report == IF last # <<>> THEN last ELSE edited_report
    IN IF Strip(final_report) = <<>>
       THEN /\ compiled_report' = <<>>
            /\ UNCHANGED <<report, editor_report>>
       ELSE /\ report' = final_report
            /\ editor_report' = final_report
            /\ compiled_report' = final_report

\* compile_briefings up to its first suspension: the report_compilation
\* event, the briefings found in the state; without any briefing nothing is
\* compiled, else edit_report enters compile_content and awaits chain.ainvoke
CompileBriefings ==
    /\ ed_pc = "ready"
    /\ events' = Logged(events, [type |-> "report_compilation"])
    /\ ed_pc' = IF \E c \in CategorySet : HasBriefing(briefing_field, c)
                THEN "compiling" ELSE "done"
    /\ UNCHANGED <<initial_report, edited_report, accumulated_text, buffer, n_deltas,
                   sweep_out, report, editor_report, compiled_report, jobVars,
                   curVars, brVars, rsVars>>

\* chain.ainvoke of compile_content ends with `out`; edit_report returns ""
\* on an empty phase-1 result, else content_sweep starts its stream
CompileContent(out) ==
    /\ ed_pc = "compiling"
    /\ initial_report' = out
    /\ edited_report' = InitialReport(briefing_field, references, out)
    /\ IF edited_report' = <<>>
       THEN ed_pc' = "done" /\ compiled_report' = <<>>
       ELSE ed_pc' = "sweeping" /\ UNCHANGED compiled_report
    /\ UNCHANGED <<accumulated_text, buffer, n_deltas, sweep_out, report,
                   editor_report, logVars, curVars, brVars, rsVars>>

\* one delta of chain.astream: both texts grow; at a sentence boundary the
\* buffer is yielded as a report_chunk, which edit_report forwards, and reset
SweepDelta(chunk) ==
    /\ ed_pc = "sweeping"
    /\ n_deltas < MaxDeltas
    /\ n_deltas' = n_deltas + 1
    /\ accumulated_text' = accumulated_text \o chunk
    /\ LET buf == buffer \o chunk
       IN IF AtBoundary(buf)
          THEN /\ sweep_out' = Append(sweep_out, ReportChunk(buf))
               /\ events' = Logged(events, ReportChunk(buf))
               /\ buffer' = <<>>
          ELSE /\ buffer' = buf
               /\ UNCHANGED <<sweep_out, events>>
    /\ UNCHANGED <<ed_pc, initial_report, edited_report, report, editor_report,
                   compiled_report, jobVars, curVars, brVars, rsVars>>

\* the stream ends: a non-empty buffer is flushed as the last chunk, the
\* stripped accumulated text is yielded, and edit_report stores the report
SweepEnd ==
    /\ ed_pc = "sweeping"
    /\ LET items == (IF buffer # <<>> THEN <<ReportChunk(buffer)>> ELSE <<>>)
                    \o <<TextItem(Strip(accumulated_text))>>
       IN /\ sweep_out' = sweep_out \o items
          /\ events' = Forwarded(events, items)
    /\ StoreReport(Strip(accumulated_text))
    /\ ed_pc' = "done"
    /\ UNCHANGED <<initial_report, edited_report, accumulated_text, buffer, n_deltas,
                   jobVars, curVars, brVars, rsVars>>

\* the stream raises: an error event and the phase-1 text are yielded, and
\* edit_report stores the report
SweepRaise ==
    /\ ed_pc = "sweeping"
    /\ LET items == <<ErrorEvent, TextItem(Fallback(edited_report, accumulated_text))>>
       IN /\ sweep_out' = sweep_out \o items
          /\ events' = Forwarded(events, items)
    /\ StoreReport(Fallback(edited_report, accumulated_text))
    /\ ed_pc' = "done"
    /\ UNCHANGED <<initial_report, edited_report, accumulated_text, buffer, n_deltas,
                   jobVars, curVars, brVars, rsVars>>

\* the completions tried in phase 1: an exception, nothing, a blank, a text
PhaseOneOutcomes == {Raised, Returned(<<>>), Returned(<<" ">>), Returned(<<"x">>)}

\* the deltas tried in phase 2: an empty one, a blank one, one without
\* sentence end, two with one
Deltas ==
    {<<>>, <<" ">>, <<"D", "o", "n", "e">>, <<"H", "e", "l", "l", "o", ".">>,
     <<" ", "W", "o", "r", "l", "d", "!">>}

\* the briefing fields the Editor finds: none, one, two, or all four
BriefingInputs ==
    {[c \in CategorySet |-> <<>>],
     [c \in CategorySet |-> IF c = "news" THEN <<"n">> ELSE <<>>],
     [financial |-> <<"f">>, news |-> <<>>, industry |-> <<>>, company |-> <<"c">>],
     [financial |-> <<"f">>, news |-> <<"n">>, industry |-> <<"i">>,
      company |-> <<"c">>]}

\* the state edit_report is called on: the briefings of the Briefing node,
\* the references of the Curator
EditorCalled ==
    /\ briefing_field \in BriefingInputs
    /\ references \in {<<>>, <<Url("https", 1, "", "")>>}
    /\ reference_titles = <<>>
    /\ reference_info = <<>>
    /\ raw = NoDocs
    /\ curated = NoDocs
    /\ curated_set = {}
    /\ unique_docs = NoDocs
    /\ evaluated_docs = NoDocs
    /\ cur_pc = "done"
    /\ br_pc = "returned"
    /\ task = [c \in CategorySet |-> "none"]
    /\ sem = BriefingSlots
    /\ content = [c \in CategorySet |-> NotCalled]
    /\ briefings = <<>>
    /\ state_briefings = <<>>
    /\ briefings_written = TRUE
    /\ prep_items = <<>>
    /\ doc_texts = <<>>
    /\ prep_pc = "idle"
    /\ InitLog
    /\ ResearchersReturned
    /\ EditorIdle

InitEditor == EditorCalled /\ OneRun

NextEditor ==
    \/ CompileBriefings /\ UNCHANGED twinVars
    \/ \E out \in PhaseOneOutcomes : CompileContent(out) /\ UNCHANGED twinVars
    \/ \E chunk \in Deltas : SweepDelta(chunk) /\ UNCHANGED twinVars
    \/ SweepEnd /\ UNCHANGED twinVars
    \/ SweepRaise /\ UNCHANGED twinVars

SpecEditor == InitEditor /\ [][NextEditor]_vars

----------------------------------------------------------------------------
(* Researcher: BaseResearcher.generate_queries and search_documents, as *)
(* driven by the analyze method of a category researcher *)

\* queries = queries[:4]
MaxQueries == 4

\* self.analyst_type of the category's researcher
AnalystType(c) ==
    CASE c = "financial" -> "financial_analyzer"
      [] c = "news" -> "news_analyzer"
      [] c = "industry" -> "industry_analyzer"
      [] c = "company" -> "company_analyzer"

QueryGenerating(query, number, c) ==
    [type |-> "query_generating", query |-> query, query_number |-> number,
     category |-> AnalystType(c)]

QueryGenerated(query, number, c) ==
    [type |-> "query_generated", query |-> query, query_number |-> number,
     category |-> AnalystType(c)]

QueriesComplete(qs) == [type |-> "queries_complete", queries |-> qs, count |-> Len(qs)]

SearchStarted(qs) == [type |-> "search_started", total_queries |-> Len(qs)]

QueryError(query) == [type |-> "query_error", query |-> query]

SearchCompleteEvent(docs, qs) ==
    [type |-> "search_complete", total_documents |-> Len(docs),
     queries_processed |-> Len(qs), merged_docs |-> docs]

\* the name of the state field a category's researcher writes
DataField(c) ==
    CASE c = "financial" -> "financial_data"
      [] c = "news" -> "news_data"
      [] c = "industry" -> "industry_data"
      [] c = "company" -> "company_data"

AnalysisComplete(c, data) ==
    [type |-> "analysis_complete", data_type |-> DataField(c), count |-> Len(data)]

\* the last item analyze yields: {'message': ..., '<category>_data': ...}
AnalysisResult(c, data) == [type |-> "None", data_type |-> DataField(c), data |-> data]

\* current_query.split('\n')
RECURSIVE Split(_)
Split(t) ==
    IF \A i \in 1..Len(t) : t[i] # "\n" THEN <<t>>
    ELSE LET i == CHOOSE k \in 1..Len(t) :
                      t[k] = "\n" /\ \A j \in 1..(k - 1) : t[j] # "\n"
         IN <<SubSeq(t, 1, i - 1)>> \o Split(SubSeq(t, i + 1, Len(t)))

\* the mutant of Finalize: a part that is empty after the trim is finalized
\* too
RECURSIVE FinalizeKeepEmpty(_, _, _)
FinalizeKeepEmpty(parts, qs, c) ==
    IF parts = <<>> THEN [queries |-> qs, emitted |-> <<>>]
    ELSE LET query == Strip(parts[1])
             rest == FinalizeKeepEmpty(Tail(parts), Append(qs, query), c)
         IN [queries |-> rest.queries,
             emitted |-> <<QueryGenerated(query, Len(qs) + 1, c)>> \o rest.emitted]

\* `for query in parts[:-1]` (here parts is parts[:-1]): each part is
\* trimmed, a non-empty one is appended to queries and announced by a
\* query_generated event numbered len(queries)
RECURSIVE Finalize(_, _, _)
Finalize(parts, qs, c) ==
    IF parts = <<>> THEN [queries |-> qs, emitted |-> <<>>]
    ELSE LET query == Strip(parts[1])
         IN IF query = <<>> THEN Finalize(Tail(parts), qs, c)
            ELSE LET rest == Finalize(Tail(parts), Append(qs, query), c)
                 IN [queries |-> rest.queries,
                     emitted |-> <<QueryGenerated(query, Len(qs) + 1, c)>>
                                 \o rest.emitted]

\* the mutant of NextQueryNumber: the number moves once per chunk that
\* finalized something
NextQueryNumberPerChunk(number, added) == IF added > 0 THEN number + 1 ELSE number

\* current_query_number += 1, once per finalized query
NextQueryNumber(number, added) == number + added

\* the mutant of Truncate: the last four queries are kept
TruncateLast(qs) ==
    IF Len(qs) > MaxQueries THEN SubSeq(qs, Len(qs) - MaxQueries + 1, Len(qs)) ELSE qs

\* queries[:4]
Truncate(qs) == SubSeq(qs, 1, Min(Len(qs), MaxQueries))

\* the mutant of NoQueries: an empty query list is let through
NoQueriesIgnored(qs) == FALSE

\* `if not queries`
NoQueries(qs) == qs = <<>>

\* every event of `items` appended to the job's events
RECURSIVE LoggedAll(_, _)
LoggedAll(log, items) ==
    IF items = <<>> THEN log ELSE LoggedAll(Logged(log, items[1]), Tail(items))

\* what tavily_client.search gives a task: not yet anything, an exception,
\* or a response with its result items
Pending == [kind |-> "pending", items |-> <<>>]

SearchFailed == [kind |-> "raise", items |-> <<>>]

Found(items) == [kind |-> "results", items |-> items]

\* one item of a search response; the url or the content may be missing
Item(url, has_url, has_content, score) ==
    [url |-> url, has_url |-> has_url, has_content |-> has_content, score |-> score]

\* _process_search_result: nothing for an item without content or url, else
\* the document with its query, its source and the item's score
Processed(item, query) ==
    IF ~item.has_content \/ ~item.has_url THEN <<>>
    ELSE <<[url |-> item.url, query |-> query, source |-> "web_search",
            score |-> item.score]>>

\* the mutant of DictSet: a key already in the dict keeps its value
DictSetDefault(d, url, doc) ==
    IF \E i \in 1..Len(d) : d[i].url = url THEN d
    ELSE Append(d, [url |-> url, doc |-> doc])

\* d[url] = doc: the value of a key already in the dict is replaced, where
\* the key stands; a new key goes last
DictSet(d, url, doc) ==
    IF \E i \in 1..Len(d) : d[i].url = url
    THEN [i \in 1..Len(d) |-> IF d[i].url = url THEN [url |-> url, doc |-> doc]
                                ELSE d[i]]
    ELSE Append(d, [url |-> url, doc |-> doc])

\* d.update(e)
RECURSIVE DictUpdate(_, _)
DictUpdate(d, e) ==
    IF e = <<>> THEN d
    ELSE DictUpdate(DictSet(d, e[1].url, e[1].doc), Tail(e))

\* `for item in result.get("results", [])`: the documents of one response
\* merged into the map
RECURSIVE MergeItems(_, _, _)
MergeItems(d, items, query) ==
    IF items = <<>> THEN d
    ELSE LET doc == Processed(items[1], query)
         IN MergeItems(IF doc = <<>> THEN d ELSE DictSet(d, doc[1].url, doc[1]),
                       Tail(items), query)

\* the mutant of MergeResults: the query_error of a failed query is put
\* before those of the queries before it
RECURSIVE MergeResultsNewestFirst(_, _, _, _)
MergeResultsNewestFirst(qs, results, n, acc) ==
    IF n > Len(qs) THEN acc
    ELSE IF results[n].kind = "raise"
         THEN MergeResultsNewestFirst(qs, results, n + 1,
                  [docs |-> acc.docs, emitted |-> <<QueryError(qs[n])>> \o acc.emitted])
         ELSE MergeResultsNewestFirst(qs, results, n + 1,
                  [docs |-> MergeItems(acc.docs, results[n].items, qs[n]),
                   emitted |-> acc.emitted])

\* the mutant of MergeResults: the loop ends at the first failed query
RECURSIVE MergeResultsUntilFailure(_, _, _, _)
MergeResultsUntilFailure(qs, results, n, acc) ==
    IF n > Len(qs) THEN acc
    ELSE IF results[n].kind = "raise"
         THEN [docs |-> acc.docs, emitted |-> Append(acc.emitted, QueryError(qs[n]))]
         ELSE MergeResultsUntilFailure(qs, results, n + 1,
                  [docs |-> MergeItems(acc.docs, results[n].items, qs[n]),
                   emitted |-> acc.emitted])

\* `for query, result in zip(queries, results)`, from the n-th pair on: a
\* failed query yields a query_error event, the items of the others are
\* merged in the order of the query list
RECURSIVE MergeResults(_, _, _, _)
MergeResults(qs, results, n, acc) ==
    IF n > Len(qs) THEN acc
    ELSE IF results[n].kind = "raise"
         THEN MergeResults(qs, results, n + 1,
                  [docs |-> acc.docs, emitted |-> Append(acc.emitted, QueryError(qs[n]))])
         ELSE MergeResults(qs, results, n + 1,
                  [docs |-> MergeItems(acc.docs, results[n].items, qs[n]),
                   emitted |-> acc.emitted])

\* analyze enters generate_queries, which opens the completion stream
GenerateQueries ==
    /\ rs_pc = "ready"
    /\ rs_pc' = "generating"
    /\ queries' = <<>>
    /\ current_query' = <<>>
    /\ current_query_number' = 1
    /\ UNCHANGED <<rs_cat, stream_text, stream_pos, n_chunks, site_scrape,
                   search_results, last_finished, merged_docs, yielded, raw_written,
                   logVars, curVars, brVars, edVars>>

\* one chunk of the stream, of k characters: the partial query is announced
\* by a query_generating event; when it holds a newline, the parts before the
\* last newline are finalized and the rest is the new partial query
StreamChunk(k) ==
    /\ rs_pc = "generating"
    /\ n_chunks < MaxChunks
    /\ stream_pos + k <= Len(stream_text)
    /\ n_chunks' = n_chunks + 1
    /\ stream_pos' = stream_pos + k
    /\ LET grown == current_query \o SubSeq(stream_text, stream_pos + 1, stream_pos + k)
           generating == QueryGenerating(grown, current_query_number, rs_cat)
           parts == Split(grown)
           done == Finalize(SubSeq(parts, 1, Len(parts) - 1), queries, rs_cat)
       IN /\ current_query' = parts[Len(parts)]
          /\ queries' = done.queries
          /\ current_query_number' =
                NextQueryNumber(current_query_number, Len(done.queries) - Len(queries))
          /\ events' = LoggedAll(events, <<generating>> \o done.emitted)
          /\ yielded' = yielded \o <<generating>> \o done.emitted
    /\ UNCHANGED <<rs_pc, rs_cat, stream_text, site_scrape, search_results,
                   last_finished, merged_docs, raw_written, jobVars, curVars,
                   brVars, edVars>>

\* the stream ends: a non-empty remainder is finalized and yielded; without
\* any query generate_queries raises; else the first four queries are
\* yielded in queries_complete, and analyze enters search_documents, which
\* yields search_started and awaits one search call per query
StreamEnd ==
    /\ rs_pc = "generating"
    /\ stream_pos = Len(stream_text)
    /\ LET remainder == Strip(current_query)
           all == IF remainder # <<>> THEN Append(queries, remainder) ELSE queries
           last == IF remainder # <<>>
                   THEN <<QueryGenerated(remainder, Len(all), rs_cat)>> ELSE <<>>
       IN IF NoQueries(all)
          THEN /\ rs_pc' = "raised"
               /\ queries' = all
               /\ yielded' = yielded \o last
               /\ UNCHANGED search_results
          ELSE /\ rs_pc' = "searching"
               /\ queries' = Truncate(all)
               /\ yielded' = yielded \o last
                                \o <<QueriesComplete(queries'), SearchStarted(queries')>>
               /\ search_results' = [i \in 1..Len(queries') |-> Pending]
    /\ UNCHANGED <<rs_cat, stream_text, stream_pos, n_chunks, current_query,
                   current_query_number, site_scrape, last_finished, merged_docs,
                   raw_written, logVars, curVars, brVars, edVars>>

\* the stream raises: generate_queries raises RuntimeError, which analyze
\* does not catch
StreamRaise ==
    /\ rs_pc = "generating"
    /\ rs_pc' = "raised"
    /\ UNCHANGED <<rs_cat, stream_text, stream_pos, n_chunks, queries, current_query,
                   current_query_number, site_scrape, search_results, last_finished,
                   merged_docs, yielded, raw_written, logVars, curVars, brVars,
                   edVars>>

\* the search call of the i-th query ends, with a response or an exception,
\* which gather keeps at the query's position
SearchReturn(i, result) ==
    /\ rs_pc = "searching"
    /\ i \in 1..Len(search_results)
    /\ search_results[i] = Pending
    /\ search_results' = [search_results EXCEPT ![i] = result]
    /\ last_finished' = i
    /\ UNCHANGED <<rs_pc, rs_cat, stream_text, stream_pos, n_chunks, queries,
                   current_query, current_query_number, site_scrape, merged_docs,
                   yielded, raw_written, logVars, curVars, brVars, edVars>>

\* gather returns once every search call has ended: the results are merged
\* in the order of the query list, search_complete is yielded, and analyze
\* stores the site scrape updated with the merged documents and yields
\* analysis_complete and its result
SearchComplete ==
    /\ rs_pc = "searching"
    /\ \A i \in 1..Len(search_results) : search_results[i] # Pending
    /\ LET merged == MergeResults(queries, search_results, 1,
                                  [docs |-> <<>>, emitted |-> <<>>])
           data == DictUpdate(site_scrape, merged.docs)
       IN /\ merged_docs' = merged.docs
          /\ raw' = [raw EXCEPT ![rs_cat] = data]
          /\ yielded' = yielded \o merged.emitted
                            \o <<SearchCompleteEvent(merged.docs, queries),
                                 AnalysisComplete(rs_cat, data),
                                 AnalysisResult(rs_cat, data)>>
    /\ raw_written' = raw_written \cup {rs_cat}
    /\ rs_pc' = "done"
    /\ UNCHANGED <<rs_cat, stream_text, stream_pos, n_chunks, queries, current_query,
                   current_query_number, site_scrape, search_results, last_finished,
                   curated, curated_set, unique_docs, evaluated_docs, references,
                   reference_titles, reference_info, cur_pc, logVars, brVars,
                   edVars>>

\* the characters a completion is made of
Alphabet == {"a", "b", " ", "\n"}

\* every text of at most n characters
RECURSIVE TextsUpTo(_)
TextsUpTo(n) ==
    IF n = 0 THEN {<<>>}
    ELSE LET shorter == TextsUpTo(n - 1)
         IN shorter \cup {Append(t, ch) : t \in {s \in shorter : Len(s) = n - 1},
                                            ch \in Alphabet}

\* a completion of five lines, one more than the cap
LongCompletion == <<"a", "\n", "b", "\n", "a", "\n", "b", "\n", "a">>

\* a completion of two lines
TwoLines == <<"a", "\n", "b">>

\* a completion with blanks around its lines, a blank line and a newline last
BlankLines == <<" ", "a", " ", "\n", " ", "\n", "b", "\n">>

\* the completions tried: every short text, and the three above
Completions == TextsUpTo(MaxText) \cup {LongCompletion, TwoLines, BlankLines}

\* the responses tried for a query: an exception, and two responses that
\* share urls, one of them with an item without content
SearchOutcomes ==
    {SearchFailed,
     Found(<<Item(Url("https", 1, "", ""), TRUE, TRUE, 5),
             Item(Url("https", 2, "", ""), TRUE, FALSE, 9)>>),
     Found(<<Item(Url("https", 2, "", ""), TRUE, TRUE, 3),
             Item(Url("https", 1, "", ""), TRUE, TRUE, 7)>>)}

\* the site scrape tried: nothing, or one first-party document under a url
\* that the search finds too
SiteScrapes ==
    {<<>>,
     <<[url |-> Url("https", 1, "", ""),
        doc |-> [url |-> Url("https", 1, "", ""), query |-> <<>>,
                 source |-> "company_website", score |-> 0]]>>}

\* the financial researcher is tried on every completion, the other three on
\* one of two lines
InitResearcher ==
    /\ rs_pc = "ready"
    /\ rs_cat \in CategorySet
    /\ stream_text \in IF rs_cat = "financial" THEN Completions ELSE {TwoLines}
    /\ stream_pos = 0
    /\ n_chunks = 0
    /\ queries = <<>>
    /\ current_query = <<>>
    /\ current_query_number = 1
    /\ site_scrape \in SiteScrapes
    /\ search_results = <<>>
    /\ last_finished = 0
    /\ merged_docs = <<>>
    /\ yielded = <<>>
    /\ raw_written = {}
    /\ raw = NoDocs
    /\ curated = NoDocs
    /\ curated_set = {}
    /\ unique_docs = NoDocs
    /\ evaluated_docs = NoDocs
    /\ references = <<>>
    /\ reference_titles = <<>>
    /\ reference_info = <<>>
    /\ cur_pc = "ready"
    /\ InitLog
    /\ OneRun
    /\ BriefingIdle
    /\ EditorIdle

NextResearcher ==
    \/ GenerateQueries /\ UNCHANGED twinVars
    \/ \E k \in 0..(Len(stream_text) - stream_pos) :
          StreamChunk(k) /\ UNCHANGED twinVars
    \/ StreamEnd /\ UNCHANGED twinVars
    \/ StreamRaise /\ UNCHANGED twinVars
    \/ \E i \in 1..MaxQueries, result \in SearchOutcomes :
          SearchReturn(i, result) /\ UNCHANGED twinVars
    \/ SearchComplete /\ UNCHANGED twinVars

SpecResearcher == InitResearcher /\ [][NextResearcher]_vars

----------------------------------------------------------------------------
(* The inputs of the Curator *)

\* raw urls (the path is a number standing for host and path): one differs
\* from another only by its query and fragment, one only by having no scheme
RawUrls ==
    {Url("https", 1, "", ""), Url("https", 1, "q", "f"), Url("", 1, "", ""),
     Url("https", 2, "", "")}

\* the score and source of a document: a score below the threshold, at it,
\* above it; a first-party document without score; an unparsable score
DocShapes ==
    {[score_kind |-> "num", score |-> 3, source |-> "web_search"],
     [score_kind |-> "num", score |-> 4, source |-> "web_search"],
     [score_kind |-> "num", score |-> 7, source |-> "web_search"],
     [score_kind |-> "missing", score |-> 0, source |-> "company_website"],
     [score_kind |-> "bad", score |-> 0, source |-> "web_search"],
     [score_kind |-> "bad", score |-> 0, source |-> "company_website"]}

\* a raw entry: the key of the raw map and the document under it, which
\* carries its own url and, before curation, no doc_type
RawEntry(i, u, sh) ==
    [url |-> u,
     doc |-> [id |-> i, url |-> u, doc_type |-> "", score_kind |-> sh.score_kind,
              score |-> sh.score, source |-> sh.source]]

\* every raw map of n entries with distinct keys
SmallData(n) ==
    {[i \in 1..n |-> RawEntry(i, us[i], ss[i])] :
        us \in {f \in [1..n -> RawUrls] : \A i, j \in 1..n : i # j => f[i] # f[j]},
        ss \in [1..n -> DocShapes]}

\* a raw map of n entries with distinct urls: every eleventh document is
\* below the threshold, every seventh is first-party, the other scores
\* follow a*i + b
LongData(n, a, b) ==
    [i \in 1..n |->
        RawEntry(i, Url("https", i, "", ""),
                 [score_kind |-> "num",
                  score |-> IF i % 11 = 0 THEN 3 ELSE 4 + ((a * i + b) % 4),
                  source |-> IF i % 7 = 0 THEN "company_website" ELSE "web_search"])]

\* the raw map of the categories that are not varied: one document exactly at
\* the threshold
OneDoc ==
    <<RawEntry(1, Url("https", 0, "", ""),
               [score_kind |-> "num", score |-> 4, source |-> "web_search"])>>

RawInputs ==
    (UNION {SmallData(n) : n \in 0..MaxRaw})
    \cup {LongData(n, a, b) : n \in MaxCurated..MaxLong, a \in 0..2, b \in 0..3}

\* a key that urlparse rejects
UnparsableUrl == Url("http", -1, "", "")

\* the keys and values of the raw maps with malformed entries: a key that
\* does not parse, a value that is not a record, an unparsable score, next to
\* a well-formed document above the threshold
MalformedUrls == {Url("https", 1, "", ""), Url("https", 1, "q", "f"), UnparsableUrl}

MalformedShapes ==
    {[score_kind |-> "num", score |-> 7, source |-> "web_search"],
     [score_kind |-> "bad", score |-> 0, source |-> "web_search"],
     [score_kind |-> "none", score |-> 0, source |-> "none"]}

\* every raw map of n entries with distinct keys, malformed entries among them
MalformedData(n) ==
    {[i \in 1..n |-> RawEntry(i, us[i], ss[i])] :
        us \in {f \in [1..n -> MalformedUrls] : \A i, j \in 1..n : i # j => f[i] # f[j]},
        ss \in [1..n -> MalformedShapes]}

\* a raw map with one malformed entry of each kind and a well-formed
\* document after them
EveryMalformation ==
    <<RawEntry(1, UnparsableUrl,
               [score_kind |-> "num", score |-> 7, source |-> "web_search"]),
      RawEntry(2, Url("https", 1, "", ""),
               [score_kind |-> "none", score |-> 0, source |-> "none"]),
      RawEntry(3, Url("https", 1, "q", "f"),
               [score_kind |-> "bad", score |-> 0, source |-> "web_search"]),
      RawEntry(4, Url("https", 2, "", ""),
               [score_kind |-> "num", score |-> 7, source |-> "web_search"])>>

MalformedInputs ==
    (UNION {MalformedData(n) : n \in 1..MaxRaw}) \cup {EveryMalformation}

\* the site-scrape document: first-party, without score; each researcher
\* puts it into its raw map before its search results
SiteDoc ==
    RawEntry(SiteId, Url("https", 5, "", ""),
             [score_kind |-> "missing", score |-> 0, source |-> "company_website"])

\* the raw maps when the researchers of the categories in T kept the site
\* document (in the others a search result took its key)
SharedRaw(T) ==
    [c \in CategorySet |-> IF c \in T THEN <<SiteDoc>> \o OneDoc ELSE OneDoc]

\* a curated document that state['curated_<category>_data'] holds before
\* the call, from an earlier curation of the same state
PriorDoc(doc_type) ==
    Evaluate([RawEntry(99, Url("https", 99, "", ""),
                       [score_kind |-> "num", score |-> 7,
                        source |-> "web_search"]).doc
              EXCEPT !.doc_type = doc_type])

PriorCurated(focus) ==
    [c \in CategorySet |-> IF c = focus THEN <<PriorDoc(c)>> ELSE <<>>]

\* the states curate_data is called in: no data at all; one category varied
\* over the raw maps above; the site document shared by several categories;
\* a category of at most one document whose curated field is already set
\* the state curate_data is called on
CuratorCalled ==
    /\ \/ /\ raw = NoDocs
          /\ curated = NoDocs
       \/ /\ \E focus \in CategorySet, data \in RawInputs \cup MalformedInputs :
                raw = [c \in CategorySet |-> IF c = focus THEN data ELSE OneDoc]
          /\ curated = NoDocs
       \/ /\ \E T \in (SUBSET CategorySet) \ {{}} : raw = SharedRaw(T)
          /\ curated = NoDocs
       \/ \E focus \in CategorySet, data \in SmallData(0) \cup SmallData(1) :
             /\ raw = [c \in CategorySet |-> IF c = focus THEN data ELSE OneDoc]
             /\ curated = PriorCurated(focus)
    /\ curated_set = {}
    /\ unique_docs = NoDocs
    /\ evaluated_docs = NoDocs
    /\ references = <<>>
    /\ reference_titles = <<>>
    /\ reference_info = <<>>
    /\ cur_pc = "ready"
    /\ InitLog
    /\ ResearchersReturned
    /\ BriefingIdle
    /\ EditorIdle

InitCurator == CuratorCalled /\ OneRun

NextCurator == CurateData /\ UNCHANGED twinVars

SpecCurator == InitCurator /\ [][NextCurator]_vars

----------------------------------------------------------------------------
(* Two runs of one node on the same state. The first run takes any steps of
   the node and records them, each with the state it leaves; the second run
   starts from the same state with another progress log (the job with or
   without a record, events already there or not, appends raising or not) and
   is given the same completions and deltas. *)

\* the most steps of a run that are recorded
MaxSteps == 7

\* what a node reads and writes in the ResearchState and in its locals,
\* the progress log left out
StageState ==
    [raw |-> raw,
     curated |-> curated,
     curated_set |-> curated_set,
     unique_docs |-> unique_docs,
     evaluated_docs |-> evaluated_docs,
     references |-> references,
     reference_titles |-> reference_titles,
     reference_info |-> reference_info,
     cur_pc |-> cur_pc,
     br_pc |-> br_pc,
     task |-> task,
     sem |-> sem,
     content |-> content,
     briefing_field |-> briefing_field,
     briefings |-> briefings,
     state_briefings |-> state_briefings,
     briefings_written |-> briefings_written,
     ed_pc |-> ed_pc,
     initial_report |-> initial_report,
     edited_report |-> edited_report,
     accumulated_text |-> accumulated_text,
     buffer |-> buffer,
     n_deltas |-> n_deltas,
     sweep_out |-> sweep_out,
     report |-> report,
     editor_report |-> editor_report,
     compiled_report |-> compiled_report]

\* the state is put back to s
Restore(s) ==
    /\ raw' = s.raw
    /\ curated' = s.curated
    /\ curated_set' = s.curated_set
    /\ unique_docs' = s.unique_docs
    /\ evaluated_docs' = s.evaluated_docs
    /\ references' = s.references
    /\ reference_titles' = s.reference_titles
    /\ reference_info' = s.reference_info
    /\ cur_pc' = s.cur_pc
    /\ br_pc' = s.br_pc
    /\ task' = s.task
    /\ sem' = s.sem
    /\ content' = s.content
    /\ briefing_field' = s.briefing_field
    /\ briefings' = s.briefings
    /\ state_briefings' = s.state_briefings
    /\ briefings_written' = s.briefings_written
    /\ ed_pc' = s.ed_pc
    /\ initial_report' = s.initial_report
    /\ edited_report' = s.edited_report
    /\ accumulated_text' = s.accumulated_text
    /\ buffer' = s.buffer
    /\ n_deltas' = s.n_deltas
    /\ sweep_out' = s.sweep_out
    /\ report' = s.report
    /\ editor_report' = s.editor_report
    /\ compiled_report' = s.compiled_report

\* the steps of a node: the action, and the task, completion or delta it is
\* given
Step(a, c, out, chunk) == [a |-> a, c |-> c, out |-> out, chunk |-> chunk]

\* the step of the node that the label names
Act(l) ==
    CASE l.a = "CurateData" -> CurateData
      [] l.a = "CreateBriefings" -> CreateBriefings
      [] l.a = "Admit" -> Admit(l.c)
      [] l.a = "Complete" -> Complete(l.c, l.out)
      [] l.a = "CompileBriefings" -> CompileBriefings
      [] l.a = "CompileContent" -> CompileContent(l.out)
      [] l.a = "SweepDelta" -> SweepDelta(l.chunk)
      [] l.a = "SweepEnd" -> SweepEnd
      [] l.a = "SweepRaise" -> SweepRaise

\* a step of the first run, recorded with the state after it
First(node, l) ==
    /\ run = 1
    /\ start.node = node
    /\ Len(trace) < MaxSteps
    /\ Act(l)
    /\ trace' = Append(trace, [label |-> l, after |-> StageState'])
    /\ UNCHANGED <<run, pos, start>>

\* the node has run to its end
Ended ==
    CASE start.node = "curator" -> cur_pc = "done"
      [] start.node = "briefing" ->
            /\ br_pc \in {"returned", "raised"}
            /\ \A c \in CategorySet : task[c] \notin {"queued", "running"}
      [] start.node = "editor" -> ed_pc = "done"

\* the events a job's record may hold before the node runs
PriorLogs == {<<>>, <<[type |-> "report_compilation"]>>}

\* the first run is over: the state is put back and the second run starts
\* with any progress log
Again ==
    /\ run = 1
    /\ Ended \/ Len(trace) = MaxSteps
    /\ Restore(start.state)
    /\ registered' \in BOOLEAN
    /\ append_fails' \in BOOLEAN
    /\ events' \in PriorLogs
    /\ run' = 2
    /\ pos' = 1
    /\ start' = [start EXCEPT !.log = <<registered, append_fails, events>>]
    /\ UNCHANGED <<trace, prepVars, rsVars>>

\* the second run is given what the first was given at the same step
Replay ==
    /\ run = 2
    /\ pos <= Len(trace)
    /\ Act(trace[pos].label)
    /\ pos' = pos + 1
    /\ UNCHANGED <<run, trace, start>>

\* the completions and the deltas given to the first run
TwinOutcomes == {Raised, Returned(<<>>), Returned(<<" ", "b", "\n">>)}

TwinDeltas == {<<"D", "o", "n", "e">>, <<"H", "e", "l", "l", "o", ".">>}

\* the first run is about to start on the state the node is called on
TwoRuns(node) ==
    /\ run = 1
    /\ trace = <<>>
    /\ pos = 0
    /\ start = [node |-> node, state |-> StageState, log |-> <<>>]

\* curate_data on inputs with every malformation, with the site scrape shared
\* by some categories, or with a curated field left by an earlier call;
\* create_briefings with a task for up to three categories; edit_report on
\* each of its inputs
InitTwoRuns ==
    \/ /\ CuratorCalled
       /\ \/ \E focus \in CategorySet :
               raw = [c \in CategorySet |-> IF c = focus THEN EveryMalformation ELSE OneDoc]
          \/ \E T \in (SUBSET CategorySet) \ {{}} : raw = SharedRaw(T)
          \/ curated # NoDocs
       /\ TwoRuns("curator")
    \/ /\ CalledOnSizes({0, 1})
       /\ curated["news"] = <<>>
       /\ TwoRuns("briefing")
    \/ /\ EditorCalled
       /\ TwoRuns("editor")

NextTwoRuns ==
    \/ First("curator", Step("CurateData", "", NotCalled, <<>>))
    \/ First("briefing", Step("CreateBriefings", "", NotCalled, <<>>))
    \/ \E c \in CategorySet : First("briefing", Step("Admit", c, NotCalled, <<>>))
    \/ \E c \in CategorySet, out \in TwinOutcomes :
          First("briefing", Step("Complete", c, out, <<>>))
    \/ First("editor", Step("CompileBriefings", "", NotCalled, <<>>))
    \/ \E out \in PhaseOneOutcomes :
          First("editor", Step("CompileContent", "", out, <<>>))
    \/ \E chunk \in TwinDeltas :
          First("editor", Step("SweepDelta", "", NotCalled, chunk))
    \/ First("editor", Step("SweepEnd", "", NotCalled, <<>>))
    \/ First("editor", Step("SweepRaise", "", NotCalled, <<>>))
    \/ Again
    \/ Replay

SpecTwoRuns == InitTwoRuns /\ [][NextTwoRuns]_vars

----------------------------------------------------------------------------
(* Claims about the progress log and the state, checked under SpecTwoRuns *)

\* the second run has taken k steps
Replayed(k) == run = 2 /\ pos = k + 1

\* C22: the ResearchState outputs of a stage (curated sets, briefings, report)
\* do not depend on the progress log: run again from the same state and given
\* the same completions, with or without a record of the job in the log,
\* whatever events it holds, and with appends that raise or not, the stage
\* can take every step it took (a failed append is never propagated) and
\* leaves after each step the state it left the first time (the log is never
\* read back for control flow). curate_data has no early return and no
\* suspension: its one step is taken whenever the call is made.
C22_OutputsIgnoreLog ==
    /\ \A k \in 1..Len(trace) : Replayed(k) => StageState = trace[k].after
    /\ \A k \in 0..(Len(trace) - 1) :
          Replayed(k) => IF start.node = "curator" THEN cur_pc = "ready"
                         ELSE ENABLED Replay

\* a run of the Briefing node whose tasks logged events, replayed to its end
\* with appends that raise
C22_Witness ==
    /\ Replayed(Len(trace))
    /\ Len(trace) >= 3
    /\ start.node = "briefing"
    /\ start.log[1] /\ ~start.log[2] /\ Len(start.log[3]) >= 2
    /\ append_fails
    /\ \E c \in CategorySet : briefings_written /\ c \in DOMAIN state_briefings

----------------------------------------------------------------------------
(* Claims about the Curator, checked under SpecCurator *)

Ids(docs) == {docs[i].id : i \in 1..Len(docs)}

LowScore(doc) ==
    (IF doc.score_kind = "num" THEN doc.score ELSE 0) < 4

C2_CappedRanked ==
    cur_pc = "done" =>
        \A c \in curated_set :
            LET kept == curated[c]
                all  == evaluated_docs[c]
            IN /\ Len(kept) <= 30
               /\ Len(kept) = Min(30, Len(all))
               /\ Range(kept) \subseteq Range(all)
               /\ \A i, j \in 1..Len(kept) :
                     i < j => \/ kept[i].overall_score > kept[j].overall_score
                              \/ /\ kept[i].overall_score = kept[j].overall_score
                                 /\ kept[i].id < kept[j].id
               /\ \A e \in Range(all) \ Range(kept) : \A k \in Range(kept) :
                     \/ e.overall_score < k.overall_score
                     \/ e.overall_score = k.overall_score /\ k.id < e.id

\* C2 witness: more than 30 evaluated documents of differing scores, cut to 30,
\* with a left-out document that ties with a kept one.
C2_Witness ==
    /\ cur_pc = "done"
    /\ \E c \in curated_set :
          /\ Len(evaluated_docs[c]) > 30
          /\ Len(curated[c]) = 30
          /\ curated[c][1].overall_score > curated[c][30].overall_score
          /\ \E e \in Range(evaluated_docs[c]) \ Range(curated[c]) :
                e.overall_score = curated[c][30].overall_score

\* the first well-formed raw entry of normalized url u in the raw map of
\* category c
FirstWithUrl(c, u) ==
    CHOOSE i \in 1..Len(raw[c]) :
        /\ WellFormed(raw[c][i])
        /\ Normalize(raw[c][i].url) = u
        /\ \A j \in 1..(i - 1) :
              WellFormed(raw[c][j]) => Normalize(raw[c][j].url) # u

\* C3: of the raw entries of a category that normalize to one URL exactly one
\* survives deduplication, and it is the first in the raw map's order,
\* whatever the scores and sources of the later ones (the entries are the
\* well-formed ones: a key that parses, a value that is a record).
C3_FirstOccurrenceWins ==
    cur_pc = "done" =>
        \A c \in CategorySet :
            \A u \in {Normalize(raw[c][i].url) :
                        i \in {k \in 1..Len(raw[c]) : WellFormed(raw[c][k])}} :
                LET hits == {k \in 1..Len(unique_docs[c]) : unique_docs[c][k].url = u}
                    first == raw[c][FirstWithUrl(c, u)].doc
                IN /\ Cardinality(hits) = 1
                   /\ \A k \in hits :
                         /\ unique_docs[c][k].id = first.id
                         /\ unique_docs[c][k].score_kind = first.score_kind
                         /\ unique_docs[c][k].score = first.score
                         /\ unique_docs[c][k].source = first.source

\* C3 witness: two raw entries that differ only by query and fragment, the
\* later one with the better score; the earlier one alone is in unique_docs.
C3_Witness ==
    /\ cur_pc = "done"
    /\ \E c \in CategorySet : \E i, j \in 1..Len(raw[c]) :
          /\ i < j
          /\ raw[c][i].url # raw[c][j].url
          /\ Normalize(raw[c][i].url) = Normalize(raw[c][j].url)
          /\ raw[c][i].doc.score_kind = "num" /\ raw[c][i].doc.score = 3
          /\ raw[c][j].doc.score_kind = "num" /\ raw[c][j].doc.score = 7
          /\ Ids(unique_docs[c]) = {raw[c][i].doc.id}

\* C20 as claimed: after curate_data the url of every curated document, which
\* is also its key in the curated map, has a scheme, no query string and no
\* fragment.
C20_NormalizedUrls ==
    cur_pc = "done" =>
        \A c \in CategorySet : \A k \in 1..Len(curated[c]) :
            /\ curated[c][k].url.scheme # ""
            /\ curated[c][k].url.query = ""
            /\ curated[c][k].url.fragment = ""

\* the documents of a category that evaluate_documents kept: their ids
EvaluatedIds(c) == Ids(evaluated_docs[c])

\* C21 as claimed: a document whose score cannot be parsed is scored 0 by
\* evaluate_documents: it is dropped when its source is not the company
\* website, and kept with overall_score 0 when it is.
C21_UnparsableScoreIsZero ==
    cur_pc = "done" =>
        \A c \in CategorySet : \A k \in 1..Len(unique_docs[c]) :
            LET doc == unique_docs[c][k] IN
            ScoreRaises(doc) =>
                IF doc.source = "company_website"
                THEN \E j \in 1..Len(evaluated_docs[c]) :
                         /\ evaluated_docs[c][j].id = doc.id
                         /\ evaluated_docs[c][j].overall_score = 0
                ELSE doc.id \notin EvaluatedIds(c)

\* the urls of the curated documents of all categories
CuratedUrls ==
    UNION {{curated[c][k].url : k \in 1..Len(curated[c])} : c \in CategorySet}

Sound(entry) == WellFormed(entry) /\ ~ScoreRaises(entry.doc)

ScoreParses(doc) == ~ScoreRaises(doc)

C26_FailedCategoryEmpty ==
    cur_pc = "done" =>
        \A c \in CategorySet :
            (raw[c] # <<>> /\ evaluated_docs[c] = <<>>) => curated[c] = <<>>

\* C27 as claimed: curate_data leaves the raw maps, and the documents in
\* them, as they were before the call.
C27_RawUntouched == [][raw' = raw]_vars

\* the site document is in the curated set of category c
SiteCurated(c) == \E k \in 1..Len(curated[c]) : Shared(curated[c][k])

\* C28: every document of curated_<category> carries doc_type = that
\* category, also the site document that several categories hold and tag
\* one after the other.
C28_TaggedByCategory ==
    cur_pc = "done" =>
        \A c \in CategorySet : \A k \in 1..Len(curated[c]) :
            curated[c][k].doc_type = c

\* C28 witness: the site document is curated in two categories, and the
\* object in the raw maps carries the tag of the later one in both.
C28_Witness ==
    /\ cur_pc = "done"
    /\ \E m, n \in 1..Len(Categories) :
          /\ m < n
          /\ SiteCurated(Categories[m]) /\ SiteCurated(Categories[n])
          /\ \A c \in {Categories[m], Categories[n]} :
                \E i \in 1..Len(raw[c]) :
                    /\ Shared(raw[c][i].doc)
                    /\ raw[c][i].doc.doc_type = Categories[n]

----------------------------------------------------------------------------
(* Claims about the Briefing node, checked under SpecBriefing *)

\* the tasks inside generate_category_briefing: admitted, not yet ended
Inside == {c \in CategorySet : task[c] = "running"}

\* C4: at every moment of create_briefings at most 2 category tasks are
\* inside generate_category_briefing, for 1 to 4 categories with data and any
\* order of the completion service's answers.
C4_AtMostTwoInside == Cardinality(Inside) <= 2 /\ sem >= 0

\* C4 witness: four categories have data; one task has ended, two are inside
\* (one of them admitted after that end) and one still waits at the gate.
C4_Witness ==
    /\ \A c \in CategorySet : task[c] # "none"
    /\ Cardinality(Inside) = 2
    /\ task["industry"] = "running"
    /\ task["company"] = "queued"
    /\ \E c \in CategorySet : task[c] \in {"done", "failed"}

\* C5: once a category task has raised, create_briefings has raised and
\* state['briefings'] stays unwritten, whatever the other tasks do afterwards.
C5_FailFast ==
    (\E c \in CategorySet : task[c] = "failed")
        => br_pc = "raised" /\ ~briefings_written /\ state_briefings = <<>>

\* C5 witness: of at least two tasks the first has raised on a whitespace-only
\* completion; the last category's task was admitted after that and has
\* ended with a briefing; state['briefings'] is unwritten.
C5_Witness ==
    /\ br_pc = "raised"
    /\ task["financial"] = "failed"
    /\ task["company"] = "done"
    /\ ~briefings_written
    /\ \E i, j \in 1..Len(events) :
          /\ i < j
          /\ events[i] = BriefingComplete("financial", <<" ">>)
          /\ events[j].type = "briefing_start"
          /\ events[j].category = "company"

\* C6 as claimed: when create_briefings has failed, no <category>_briefing
\* field holds content written by that call.
C6_NoPartialBriefing ==
    br_pc = "raised" =>
        \A c \in CategorySet : briefing_field[c] \in {Absent, <<>>}

\* C7: when no synthesis fails create_briefings returns, state['briefings']
\* has exactly the categories with a non-empty curated set as keys, each value
\* is the category's briefing field, and every other category's briefing
\* field is the empty string.
C7_BriefingsForNonEmpty ==
    /\ (br_pc # "ready" /\ \A c \in CategorySet : task[c] \in {"none", "done"})
          => br_pc = "returned"
    /\ br_pc = "returned" =>
          /\ briefings_written
          /\ DOMAIN state_briefings = {c \in CategorySet : curated[c] # <<>>}
          /\ \A c \in DOMAIN state_briefings :
                /\ state_briefings[c] = briefing_field[c]
                /\ state_briefings[c] = Strip(content[c].text)
                /\ state_briefings[c] # <<>>
          /\ \A c \in CategorySet \ DOMAIN state_briefings : briefing_field[c] = <<>>

\* C7 witness: curated data for financial, industry and company but not for
\* news; the call has returned three briefings.
C7_Witness ==
    /\ br_pc = "returned"
    /\ DOMAIN state_briefings = {"financial", "industry", "company"}
    /\ curated["news"] = <<>>
    /\ briefing_field["news"] = <<>>
    /\ state_briefings["company"] = <<"b">>

\* C8: a task whose completion came back empty has failed and the call has
\* raised; no task ever stores an empty text as its category's briefing.
C8_EmptyOutputIsFatal ==
    /\ \A c \in CategorySet :
          (content[c].kind = "text" /\ content[c].text = <<>>)
              => task[c] = "failed" /\ br_pc = "raised"
    /\ \A c \in CategorySet : task[c] # "none" => briefing_field[c] # <<>>
    /\ \A c \in DOMAIN briefings : briefings[c] # <<>>
    /\ \A c \in DOMAIN state_briefings : state_briefings[c] # <<>>

\* C8 witness: the completion of one category came back empty, its task has
\* failed, the call has raised and the category's field was not written.
C8_Witness ==
    \E c \in CategorySet :
        /\ content[c] = Returned(<<>>)
        /\ task[c] = "failed"
        /\ br_pc = "raised"
        /\ briefing_field[c] = Absent

\* the types of the events of category c in the log, in log order
RECURSIVE TypesOf(_, _)
TypesOf(log, c) ==
    IF log = <<>> THEN <<>>
    ELSE LET before == TypesOf(SubSeq(log, 1, Len(log) - 1), c)
             e == log[Len(log)]
         IN IF e.category = c THEN Append(before, e.type) ELSE before

IsPrefix(s, t) == Len(s) <= Len(t) /\ SubSeq(t, 1, Len(s)) = s

\* generate_category_briefing emits briefing_start, then briefing_complete
EmissionOrder == <<"briefing_start", "briefing_complete">>

\* C23: the progress log only grows at its end: the log before a step is a
\* prefix of the log after it; and the events of one category are in the
\* log in the order the category emitted them (briefing_start before
\* briefing_complete, each once), whatever the other categories, running
\* concurrently, append in between.
C23_AppendOnlyInOrder ==
    /\ [][IsPrefix(events, events')]_vars
    /\ [](\A c \in CategorySet : IsPrefix(TypesOf(events, c), EmissionOrder))

\* C23 witness: two categories ran concurrently and their events are
\* interleaved in the log: both started before either completed, and the
\* one that started second completed first.
C23_Witness ==
    /\ Len(events) >= 4
    /\ events[1].type = "briefing_start"
    /\ events[2].type = "briefing_start"
    /\ events[3].type = "briefing_complete"
    /\ events[3].category = events[2].category
    /\ events[4].type = "briefing_complete"
    /\ events[4].category = events[1].category

\* the tasks that hold a slot
Running == {c \in CategorySet : task[c] = "running"}

\* C30: every task queued at the gate is eventually admitted, every task
\* eventually ends, and create_briefings eventually returns or raises,
\* provided every completion call that was started ends; a task gives its
\* slot back when it ends, also by failing, so the free slots and the running
\* tasks always add up to 2.
C30_QueuedAdmittedCallEnds ==
    /\ \A c \in CategorySet : (task[c] = "queued") ~> (task[c] # "queued")
    /\ \A c \in CategorySet :
          (task[c] \in {"queued", "running"}) ~> (task[c] \in {"done", "failed"})
    /\ <>(br_pc \in {"returned", "raised"})
    /\ [](sem + Cardinality(Running) = BriefingSlots)

\* C30 witness: the first two tasks failed, the call has raised, and a task
\* that was queued behind them has been admitted.
C30_Witness ==
    /\ br_pc = "raised"
    /\ task[Categories[1]] = "failed"
    /\ task[Categories[2]] = "failed"
    /\ \E n \in 3..Len(Categories) : task[Categories[n]] \in {"running", "done"}

\* the events of category c in the log that have the given type
EventsOf(c, type) ==
    {i \in 1..Len(events) : events[i].category = c /\ events[i].type = type}

\* C31: when the completion of a category came back empty and the job has a
\* record, the log holds an error event of that category, after the
\* category's briefing_start event, once the task has failed.
C31_EmptyOutputErrorLogged ==
    \A c \in CategorySet :
        (registered /\ content[c] = Returned(<<>>) /\ task[c] = "failed")
            => \E i \in EventsOf(c, "error") :
                  \E j \in EventsOf(c, "briefing_start") : j < i

\* C35: a briefing_complete event of a category in the log means that the
\* category's task has not raised and that the category's briefing field
\* holds a non-empty text, whatever the completion was.
C35_CompleteMeansSucceeded ==
    \A c \in CategorySet :
        EventsOf(c, "briefing_complete") # {}
            => /\ task[c] = "done"
               /\ briefing_field[c] \notin {Absent, <<>>}

----------------------------------------------------------------------------
(* Claims about _prepare_documents, checked under SpecPrepare *)

\* the position of a document in the argument of _prepare_documents
PrepPos(id) == CHOOSE p \in 1..Len(prep_items) : prep_items[p].id = id

ItemOf(id) == prep_items[PrepPos(id)]

\* x is ranked before y: a higher score, or the same score and earlier in
\* the argument
RankedBefore(x, y) ==
    \/ x.overall_score > y.overall_score
    \/ x.overall_score = y.overall_score /\ PrepPos(x.id) < PrepPos(y.id)

Listed == {doc_texts[k].id : k \in 1..Len(doc_texts)}

Unlisted == {prep_items[p].id : p \in 1..Len(prep_items)} \ Listed

RECURSIVE SumLengths(_)
SumLengths(texts) ==
    IF texts = <<>> THEN 0 ELSE Head(texts).length + SumLengths(Tail(texts))

\* the length of the entry of a document: the frame, the title and the
\* content, which is cut to 8000 characters plus the marker of 23
EntryLength(doc) ==
    LET c == IF doc.raw_content > 0 THEN doc.raw_content ELSE doc.content
    IN 18 + doc.title + (IF c <= 8000 THEN c ELSE 8000 + 23)

\* C29: the entries _prepare_documents lists are in descending order of
\* overall_score (ties in input order) and are a prefix of that order; the
\* content of each is cut to at most 8000 characters plus the marker; their
\* summed length is under 120,000; and the first document left out is one
\* whose entry would bring the sum to 120,000 or more: no document after it
\* is listed.
C29_LongestPrefixUnderCeiling ==
    prep_pc = "returned" =>
        /\ \A i, j \in 1..Len(doc_texts) :
              i < j => RankedBefore(ItemOf(doc_texts[i].id), ItemOf(doc_texts[j].id))
        /\ \A x \in Listed : \A y \in Unlisted : RankedBefore(ItemOf(x), ItemOf(y))
        /\ \A k \in 1..Len(doc_texts) :
              /\ doc_texts[k].content <= 8000 + 23
              /\ doc_texts[k].length = EntryLength(ItemOf(doc_texts[k].id))
        /\ SumLengths(doc_texts) < 120000
        /\ \A y \in Unlisted :
              (\A z \in Unlisted \ {y} : RankedBefore(ItemOf(y), ItemOf(z)))
                  => SumLengths(doc_texts) + EntryLength(ItemOf(y)) >= 120000

\* C29 witness: truncated entries are listed, the first document left out
\* would bring the sum to exactly 120,000, and a shorter document ranked
\* after it, which would fit, is left out too.
C29_Witness ==
    /\ prep_pc = "returned"
    /\ \E k \in 1..Len(doc_texts) : doc_texts[k].content = 8000 + 23
    /\ \E y, z \in Unlisted :
          /\ RankedBefore(ItemOf(y), ItemOf(z))
          /\ SumLengths(doc_texts) + EntryLength(ItemOf(y)) = 120000
          /\ SumLengths(doc_texts) + EntryLength(ItemOf(z)) < 120000

----------------------------------------------------------------------------
(* Claims about the Editor, checked under SpecEditor *)

\* the phase-2 stream has raised: content_sweep yielded its error event
SweepFailed == \E i \in 1..Len(sweep_out) : sweep_out[i].type = "error"

Blank(t) == \A i \in 1..Len(t) : t[i] \in {" ", "\n", "\t"}

\* C9 as claimed, for a job that has an event log: after a phase-2 stream
\* that raised after at least one delta, the stored report is the phase-1
\* result R and an error event is in the log.
C9_FallbackStored ==
    (ed_pc = "done" /\ SweepFailed /\ n_deltas >= 1 /\ registered)
        => /\ report = edited_report
           /\ \E i \in 1..Len(events) : events[i].type = "error"

\* C9 amended: after a phase-2 stream that raised, after any number of deltas
\* and chunks, a phase-1 result R that is not blank is the stored report (in
\* both report fields) and a blank R leaves the report unstored; the error
\* event was yielded and, when the job has a record in the log, it is the
\* last event of the job's log.
C9_FallbackToPhaseOne ==
    (ed_pc = "done" /\ SweepFailed)
        => /\ ~Blank(edited_report)
                => report = edited_report /\ editor_report = edited_report
           /\ Blank(edited_report) => report = Absent /\ editor_report = Absent
           /\ registered
                => events # <<>> /\ events[Len(events)].type = "error"
           /\ ~registered => events = <<>>

\* C9 witness: the stream raised after three deltas and one forwarded
\* report_chunk; the stored report is the phase-1 result and the log ends
\* with the chunk and the error event.
C9_Witness ==
    /\ ed_pc = "done"
    /\ SweepFailed
    /\ registered
    /\ n_deltas = 3
    /\ accumulated_text # <<>>
    /\ Len(events) >= 3
    /\ events[Len(events) - 1].type = "report_chunk"
    /\ events[Len(events)].type = "error"
    /\ report = edited_report
    /\ report # Strip(accumulated_text)

\* what content_sweep yields in a step
NewItems == SubSeq(sweep_out', Len(sweep_out) + 1, Len(sweep_out'))

NewChunks == {i \in 1..Len(NewItems) : NewItems[i].type = "report_chunk"}

EndsSentence(t) == \E i \in 1..Len(t) : t[i] \in {".", "!", "?", "\n"}

\* C10: when a delta was added, the whole buffer is emitted as one
\* report_chunk and the buffer reset exactly if the buffer holds one of
\* . ! ? newline and is longer than 10; at the end of the stream a non-empty
\* buffer is emitted as one last report_chunk; no other step emits a chunk.
C10_ChunkRule ==
    LET grown == buffer \o SubSeq(accumulated_text', Len(accumulated_text) + 1,
                                  Len(accumulated_text'))
    IN CASE n_deltas' = n_deltas + 1 ->
               IF EndsSentence(grown) /\ Len(grown) > 10
               THEN NewItems = <<[type |-> "report_chunk", chunk |-> grown]>>
                    /\ buffer' = <<>>
               ELSE NewItems = <<>> /\ buffer' = grown
         [] ed_pc = "sweeping" /\ ed_pc' = "done" /\ ~SweepFailed' ->
               IF buffer # <<>>
               THEN NewChunks = {1}
                    /\ NewItems[1] = [type |-> "report_chunk", chunk |-> buffer]
               ELSE NewChunks = {}
         [] OTHER -> NewChunks = {}

C10_Chunking == [][C10_ChunkRule]_vars

\* C10 witness: "Hello." then " World!" then "Done": one chunk when the
\* buffer passed length 10 with a sentence end, the rest flushed at the end.
C10_Witness ==
    /\ ed_pc = "done"
    /\ Len(sweep_out) = 3
    /\ sweep_out[1] = ReportChunk(<<"H", "e", "l", "l", "o", ".", " ", "W", "o", "r",
                                    "l", "d", "!">>)
    /\ sweep_out[2] = ReportChunk(<<"D", "o", "n", "e">>)
    /\ sweep_out[3].type = "text"

\* the briefings that are there and not empty, in the order company,
\* industry, financial, news
AvailableBriefings ==
    SelectSeq(<<"company", "industry", "financial", "news">>,
              LAMBDA c : briefing_field[c] # Absent /\ briefing_field[c] # <<>>)

\* the briefings of the categories cs, joined by blank lines
RECURSIVE JoinedByBlankLines(_)
JoinedByBlankLines(cs) ==
    IF cs = <<>> THEN <<>>
    ELSE IF Len(cs) = 1 THEN briefing_field[cs[1]]
    ELSE briefing_field[cs[1]] \o <<"\n", "\n">> \o JoinedByBlankLines(Tail(cs))

\* C11: when the completion call of compile_content raised, compile_content
\* has returned (edit_report went on to phase 2 or ended) and its result is
\* the available briefings in the order company, industry, financial, news,
\* joined by blank lines and nothing else, which is not empty.
C11_FallbackIsRawConcatenation ==
    initial_report.kind = "raise"
        => /\ ed_pc \in {"sweeping", "done"}
           /\ edited_report = JoinedByBlankLines(AvailableBriefings)
           /\ edited_report # <<>>

\* C11 witness: the completion raised with all four briefings and a
\* reference list in the state; phase 2 starts from the four briefings in
\* the Editor's order.
C11_Witness ==
    /\ initial_report.kind = "raise"
    /\ ed_pc = "sweeping"
    /\ references # <<>>
    /\ edited_report = <<"c", "\n", "\n", "i", "\n", "\n", "f", "\n", "\n", "n">>

\* C12: once the Editor has finished, the two report fields are equal, and
\* a non-empty text returned by edit_report is the value of both.
C12_DualPlacement ==
    ed_pc = "done"
        => /\ report = editor_report
           /\ (compiled_report # Absent /\ compiled_report # <<>>)
                => report = compiled_report /\ editor_report = compiled_report

\* C12 witness: phase 2 ended normally and its stripped text is in both
\* fields.
C12_Witness ==
    /\ ed_pc = "done"
    /\ ~SweepFailed
    /\ compiled_report = Strip(accumulated_text)
    /\ compiled_report # <<>>
    /\ report = compiled_report
    /\ editor_report = compiled_report

\* the last string content_sweep yielded
LastText ==
    IF sweep_out # <<>> /\ sweep_out[Len(sweep_out)].type = "text"
    THEN sweep_out[Len(sweep_out)].text ELSE <<>>

\* edit_report was called and what it ends with, after phase 1 alone or
\* after both phases, is empty or blank
FinalResultEmpty ==
    /\ ed_pc = "done"
    /\ initial_report.kind # "none"
    /\ \/ edited_report = <<>>
       \/ Blank(IF LastText # <<>> THEN LastText ELSE edited_report)

\* C13: the Editor never ends in an exception, whatever the two completion
\* calls do; when the final result is empty, edit_report has returned "" to
\* compile_briefings and neither report field was written, so the caller
\* reads an empty report.
C13_EmptyResultNotRaised ==
    /\ ed_pc \in {"ready", "compiling", "sweeping", "done"}
    /\ FinalResultEmpty
        => compiled_report = <<>> /\ report = Absent /\ editor_report = Absent

\* C13 witness: phase 1 gave a blank text, phase 2 streamed deltas without
\* any text and ended; the Editor is done and no report was stored.
C13_Witness ==
    /\ ed_pc = "done"
    /\ initial_report = Returned(<<" ">>)
    /\ n_deltas >= 1
    /\ ~SweepFailed
    /\ compiled_report = <<>>
    /\ report = Absent

\* the phase-2 stream ended without raising and what it delivered is empty
\* or blank
SweepEndedBlank ==
    /\ ed_pc = "done"
    /\ sweep_out # <<>>
    /\ ~SweepFailed
    /\ Blank(accumulated_text)

\* C32 as claimed: after a phase-2 stream that ended without error with an
\* empty or blank text, the stored report is the phase-1 text.
C32_BlankSweepStoresPhaseOne ==
    SweepEndedBlank => report = edited_report

\* C32 amended: after a phase-2 stream that ended without error with an
\* empty or blank text the Editor does not fail; a phase-1 text that is not
\* blank is the stored report (in both report fields) and is what
\* edit_report returns, and a blank phase-1 text leaves the report unstored
\* and "" is returned.
C32_BlankSweepFallsBack ==
    SweepEndedBlank
        => /\ ~Blank(edited_report)
                => /\ report = edited_report
                   /\ editor_report = edited_report
                   /\ compiled_report = edited_report
           /\ Blank(edited_report)
                => /\ report = Absent
                   /\ editor_report = Absent
                   /\ compiled_report = <<>>

\* C32 witness: the stream delivered two deltas, blanks only, and ended; the
\* stored report is the phase-1 text with its references section.
C32_Witness ==
    /\ SweepEndedBlank
    /\ n_deltas = 2
    /\ accumulated_text = <<" ", " ">>
    /\ references # <<>>
    /\ report = edited_report
    /\ report = <<"x", "\n", "\n", "#", "R">>

\* t ends with s
IsSuffix(s, t) ==
    Len(s) <= Len(t) /\ SubSeq(t, Len(t) - Len(s) + 1, Len(t)) = s

\* C33: when the state has a non-empty reference list, what compile_content
\* returned ends with the rendered references section, after a completion
\* that succeeded and after the fallback to the raw concatenation alike.
C33_EndsWithReferences ==
    (references # <<>> /\ initial_report.kind # "none")
        => IsSuffix(ReferenceText(references), edited_report)

\* the chunks of the report_chunk items of a sequence, concatenated in order
RECURSIVE ChunksJoined(_)
ChunksJoined(items) ==
    IF items = <<>> THEN <<>>
    ELSE (IF items[1].type = "report_chunk" THEN items[1].chunk ELSE <<>>)
         \o ChunksJoined(Tail(items))

\* C36: while the phase-2 stream has not raised, the chunks emitted so far,
\* concatenated in emission order, and the buffer after them are the text
\* streamed so far; once the stream has ended normally the chunks alone are
\* the full streamed text, also in the job's log when the job has a record:
\* no character is lost, duplicated or moved, however the text is split
\* into deltas.
C36_ChunksAreTheStream ==
    ~SweepFailed
        => /\ ed_pc = "sweeping"
                => ChunksJoined(sweep_out) \o buffer = accumulated_text
           /\ (ed_pc = "done" /\ sweep_out # <<>>)
                => /\ ChunksJoined(sweep_out) = accumulated_text
                   /\ registered => ChunksJoined(Tail(events)) = accumulated_text

\* C36 witness: four deltas, with a blank and an empty one among them, were
\* sent as two chunks, the second flushed at the end of the stream; the text
\* yielded last is the stripped stream, shorter than the chunks together.
C36_Witness ==
    /\ ed_pc = "done"
    /\ ~SweepFailed
    /\ registered
    /\ n_deltas = 4
    /\ Len(sweep_out) = 3
    /\ sweep_out[1].type = "report_chunk"
    /\ sweep_out[2].type = "report_chunk"
    /\ sweep_out[2].chunk = <<" ">>
    /\ Len(accumulated_text) > Len(sweep_out[3].text)

----------------------------------------------------------------------------
(* Claims about a category researcher, checked under SpecResearcher *)

\* the lines of the text t from position i on, cur being the line begun
RECURSIVE LinesFrom(_, _, _)
LinesFrom(t, i, cur) ==
    IF i > Len(t) THEN <<cur>>
    ELSE IF t[i] = "\n" THEN <<cur>> \o LinesFrom(t, i + 1, <<>>)
    ELSE LinesFrom(t, i + 1, Append(cur, t[i]))

\* the lines trimmed, without the empty ones
NonEmptyTrimmed(lines) ==
    SelectSeq([i \in 1..Len(lines) |-> Strip(lines[i])], LAMBDA l : l # <<>>)

\* the queries of the query_generated events among the first n yielded items
GeneratedQueries(n) ==
    LET generated == SelectSeq(SubSeq(yielded, 1, n),
                               LAMBDA e : e.type = "query_generated")
    IN [i \in 1..Len(generated) |-> generated[i].query]

\* the stream was read to its end, and generate_queries went on from there
StreamEnded == rs_pc \in {"searching", "done"}

\* C14: while the stream is read, the finalized queries are the non-empty
\* trimmed lines that a newline has closed in the text delivered so far, and
\* the partial query is the text after the last newline; once the stream has
\* ended, the finalized queries (one query_generated event each) are the
\* non-empty trimmed lines of the whole text, in order, however the text was
\* cut into chunks.
C14_QueriesAreTrimmedLines ==
    /\ rs_pc = "generating"
        => LET lines == LinesFrom(SubSeq(stream_text, 1, stream_pos), 1, <<>>)
           IN /\ queries = NonEmptyTrimmed(SubSeq(lines, 1, Len(lines) - 1))
              /\ current_query = lines[Len(lines)]
              /\ GeneratedQueries(Len(yielded)) = queries
    /\ StreamEnded
        => GeneratedQueries(Len(yielded))
              = NonEmptyTrimmed(LinesFrom(stream_text, 1, <<>>))

\* C14 witness: " a \n \nb\n" delivered in two chunks, the first one ending
\* inside the first line; the queries are "a" and "b".
C14_Witness ==
    /\ StreamEnded
    /\ stream_text = BlankLines
    /\ n_chunks = 2
    /\ yielded[1] = QueryGenerating(<<" ", "a">>, 1, rs_cat)
    /\ GeneratedQueries(Len(yielded)) = <<<<"a">>, <<"b">>>>

\* the queries of the queries_complete event
CompleteQueries ==
    LET complete == SelectSeq(yielded, LAMBDA e : e.type = "queries_complete")
    IN IF Len(complete) = 1 THEN complete[1].queries ELSE <<"?">>

\* C15: once generate_queries has ended normally, the queries_complete event
\* carries the first 4 finalized queries in their order (all of them when
\* there are fewer), the search fan-out uses that list, and there is one
\* search call per query of it, so at most 4.
C15_AtMostFourQueries ==
    StreamEnded
        => LET finalized == GeneratedQueries(Len(yielded))
               first4 == [i \in 1..(IF Len(finalized) < 4 THEN Len(finalized) ELSE 4)
                             |-> finalized[i]]
           IN /\ CompleteQueries = first4
              /\ queries = first4
              /\ Len(search_results) = Len(first4)
              /\ Len(search_results) <= 4

\* C15 witness: five lines "a", "b", "a", "b", "a" were finalized; four
\* search calls were issued, for "a", "b", "a", "b".
C15_Witness ==
    /\ rs_pc = "searching"
    /\ Len(GeneratedQueries(Len(yielded))) = 5
    /\ CompleteQueries = <<<<"a">>, <<"b">>, <<"a">>, <<"b">>>>
    /\ Len(search_results) = 4

\* C16: after generate_queries has raised (the stream raised, or ended
\* without any query) no queries_complete event was yielded, no search call
\* was issued, the category's data field was not written and, for a job
\* with a record in the log, every event yielded before the failure is in
\* the log; and generate_queries does not end normally without a query.
C16_QueryGenerationFatal ==
    /\ rs_pc = "raised"
        => /\ \A i \in 1..Len(yielded) : yielded[i].type # "queries_complete"
           /\ search_results = <<>>
           /\ rs_cat \notin raw_written
           /\ raw[rs_cat] = <<>>
           /\ registered => events = yielded
    /\ StreamEnded
        => /\ NonEmptyTrimmed(LinesFrom(stream_text, 1, <<>>)) # <<>>
           /\ queries # <<>>

\* C16 witness: the stream raised after a chunk that finalized a query, with
\* more text to come; the two events of that chunk are in the log.
C16_Witness ==
    /\ rs_pc = "raised"
    /\ registered
    /\ stream_pos < Len(stream_text)
    /\ queries # <<>>
    /\ Len(events) >= 2
    /\ events[Len(events)].type = "query_generated"

\* how many of the first n items of seq are query_generated events
GeneratedBefore(seq, n) ==
    Cardinality({i \in 1..n : seq[i].type = "query_generated"})

\* the query_generated events of seq are numbered 1, 2, 3, ... and every
\* query_generating event has one more than the number of query_generated
\* events before it
NumberedInOrder(seq) ==
    \A i \in 1..Len(seq) :
        /\ seq[i].type = "query_generated"
            => seq[i].query_number = GeneratedBefore(seq, i)
        /\ seq[i].type = "query_generating"
            => seq[i].query_number = GeneratedBefore(seq, i - 1) + 1

\* C17: in the events a researcher yields, and in those it appends to the
\* log, the query_generated events carry 1, 2, 3, ... in order, without gap
\* or repeat, and every query_generating event carries one more than the
\* number of queries finalized before it.
C17_QueryNumbersInOrder ==
    /\ NumberedInOrder(yielded)
    /\ NumberedInOrder(events)

\* C17 witness: one chunk finalized two queries and the next chunk's
\* query_generating event has number 3.
C17_Witness ==
    /\ Len(yielded) >= 4
    /\ yielded[2].type = "query_generated"
    /\ yielded[3].type = "query_generated"
    /\ yielded[4].type = "query_generating"
    /\ yielded[4].query_number = 3

\* the positions of the queries whose search call failed
FailedQueries == {i \in 1..Len(search_results) : search_results[i].kind = "raise"}

\* the urls of the documents that the response of the i-th query gives
UrlsFound(i) ==
    {search_results[i].items[k].url : k \in
        {j \in 1..Len(search_results[i].items) :
            search_results[i].items[j].has_url /\ search_results[i].items[j].has_content}}

\* the items of seq of the given type
OfType(seq, type) == SelectSeq(seq, LAMBDA e : e.type = type)

\* C18: a search call that fails never makes the researcher raise; when
\* analyze is done there is one query_error event per failed query, the
\* merged map has exactly the urls found by the queries that did not fail,
\* one search_complete event counts them, the category's data field was
\* written, and one analysis_complete event counts its documents.
C18_SearchFailuresIsolated ==
    /\ search_results # <<>> => rs_pc \in {"searching", "done"}
    /\ rs_pc = "done"
        => /\ Len(OfType(yielded, "query_error")) = Cardinality(FailedQueries)
           /\ \A i \in FailedQueries :
                 \E k \in 1..Len(yielded) :
                    yielded[k].type = "query_error" /\ yielded[k].query = queries[i]
           /\ {merged_docs[k].url : k \in 1..Len(merged_docs)}
                 = UNION {UrlsFound(i) : i \in (1..Len(queries)) \ FailedQueries}
           /\ Len(OfType(yielded, "search_complete")) = 1
           /\ OfType(yielded, "search_complete")[1].total_documents = Len(merged_docs)
           /\ OfType(yielded, "search_complete")[1].merged_docs = merged_docs
           /\ rs_cat \in raw_written
           /\ \A k \in 1..Len(merged_docs) :
                 \E j \in 1..Len(raw[rs_cat]) : raw[rs_cat][j] = merged_docs[k]
           /\ Len(OfType(yielded, "analysis_complete")) = 1
           /\ OfType(yielded, "analysis_complete")[1].count = Len(raw[rs_cat])

\* C18 witness: four queries, all four search calls failed; analyze is done,
\* with four query_error events, no merged document and the data field
\* written with the site scrape alone.
C18_Witness ==
    /\ rs_pc = "done"
    /\ Len(queries) = 4
    /\ FailedQueries = 1..4
    /\ Len(OfType(yielded, "query_error")) = 4
    /\ merged_docs = <<>>
    /\ rs_cat \in raw_written
    /\ raw[rs_cat] = site_scrape
    /\ site_scrape # <<>>

\* the last query, in the order of the query list, that found the url
LastFinder(url) ==
    CHOOSE i \in 1..Len(queries) :
        /\ i \notin FailedQueries
        /\ url \in UrlsFound(i)
        /\ \A j \in (i + 1)..Len(queries) : j \in FailedQueries \/ url \notin UrlsFound(j)

\* the score of the last item with that url in the response of the i-th query
LastScore(i, url) ==
    LET items == search_results[i].items
        k == CHOOSE k \in 1..Len(items) :
                /\ items[k].url = url /\ items[k].has_url /\ items[k].has_content
                /\ \A j \in (k + 1)..Len(items) :
                      ~(items[j].url = url /\ items[j].has_url /\ items[j].has_content)
    IN items[k].score

\* C19: when analyze is done, whichever search call ended last, every url
\* of the merged map holds the document of the last query of the query list
\* that found it, and the query_error events are in the order of the query
\* list.
C19_LastQueryWins ==
    rs_pc = "done"
        => /\ \A k \in 1..Len(merged_docs) :
                 LET url == merged_docs[k].url
                     i == LastFinder(url)
                 IN /\ merged_docs[k].doc.query = queries[i]
                    /\ merged_docs[k].doc.score = LastScore(i, url)
                    /\ merged_docs[k].doc.url = url
           /\ LET errors == OfType(yielded, "query_error")
                  failed == SelectSeq([i \in 1..Len(queries) |-> i],
                                      LAMBDA i : i \in FailedQueries)
              IN errors = [k \in 1..Len(failed) |-> QueryError(queries[failed[k]])]

\* C19 witness: the queries "a" and "b" both found url 1, with scores 5 and
\* 7; the search call of "a" ended last, and the merged map holds the
\* document of "b".
C19_Witness ==
    /\ rs_pc = "done"
    /\ queries = <<<<"a">>, <<"b">>>>
    /\ last_finished = 1
    /\ search_results[1].kind = "results"
    /\ search_results[2].kind = "results"
    /\ search_results[1] # search_results[2]
    /\ \E k \in 1..Len(merged_docs) :
          /\ merged_docs[k].url = Url("https", 1, "", "")
          /\ merged_docs[k].doc.query = <<"b">>
          /\ merged_docs[k].doc.score = 7

\* C34: for a job with a record in the log, once the stream has ended and
\* generate_queries has gone on, the log holds one query_generated event per
\* finalized query (each query closed by a newline, and the non-empty
\* remainder finalized after the stream).
C34_EveryFinalizedQueryLogged ==
    (registered /\ StreamEnded)
        => Len(OfType(events, "query_generated"))
              = Len(OfType(yielded, "query_generated"))

\* the place of an event type in the order of a run
Stage(type) ==
    CASE type \in {"query_generating", "query_generated"} -> 1
      [] type = "queries_complete" -> 2
      [] type = "search_started" -> 3
      [] type = "query_error" -> 4
      [] type = "search_complete" -> 5
      [] type = "analysis_complete" -> 6
      [] OTHER -> 7

\* the queries whose search call failed, in the order of the query list
FailedInOrder ==
    LET failed == SelectSeq([i \in 1..Len(queries) |-> i],
                            LAMBDA i : search_results[i].kind = "raise")
    IN [k \in 1..Len(failed) |-> queries[failed[k]]]

\* C37: the events a researcher yields come in the order query_generating /
\* query_generated, queries_complete, search_started, query_error,
\* search_complete, analysis_complete; a search call exists only after the
\* one queries_complete event; and a run that ended normally has yielded
\* exactly one queries_complete, search_started, search_complete and
\* analysis_complete, the query_error events of the failed queries in the
\* order of the query list, and in analysis_complete the size of the stored
\* category data.
C37_EventOrder ==
    /\ \A i, j \in 1..Len(yielded) :
          i < j => Stage(yielded[i].type) <= Stage(yielded[j].type)
    /\ search_results # <<>> => Len(OfType(yielded, "queries_complete")) = 1
    /\ rs_pc = "done"
        => /\ \A type \in {"queries_complete", "search_started", "search_complete",
                            "analysis_complete"} : Len(OfType(yielded, type)) = 1
           /\ LET errors == OfType(yielded, "query_error")
              IN [k \in 1..Len(errors) |-> errors[k].query] = FailedInOrder
           /\ OfType(yielded, "analysis_complete")[1].count = Len(raw[rs_cat])

\* C37 witness: four queries; the search calls of the first and the second
\* failed, and the first was the last of all to end; their query_error
\* events are yielded first query first, between search_started and
\* search_complete.
C37_Witness ==
    /\ rs_pc = "done"
    /\ Len(queries) = 4
    /\ queries[1] # queries[2]
    /\ FailedQueries = {1, 2}
    /\ last_finished = 1
    /\ \E k \in 1..Len(yielded) :
          /\ yielded[k].type = "search_started"
          /\ yielded[k + 1] = QueryError(queries[1])
          /\ yielded[k + 2] = QueryError(queries[2])
          /\ yielded[k + 3].type = "search_complete"
          /\ yielded[k + 4].type = "analysis_complete"
          /\ yielded[k + 4].count = Len(raw[rs_cat])

====
